---- MODULE Spec2Model ----
(***************************************************************************)
(* Book-swap canister (src/dfinity_js_backend/src/index.ts): the four      *)
(* stable maps, every update and query call and the calls' results; and    *)
(* the swap-request tab of the front end's book list, which calls it.      *)
(* Texts that the code inspects character by character (name, email,       *)
(* phone number, book texts, comments) are sequences of one-character      *)
(* strings; identifiers and principals, which the code only compares, are  *)
(* strings, "" being the empty text.                                       *)
(***************************************************************************)
EXTENDS Naturals, Sequences, FiniteSets, TLC

VARIABLES
  usersStorage,         \* userId -> User
  booksStorage,         \* bookId -> Book
  swapRequestsStorage,  \* swapRequestId -> SwapRequest
  feedbackStorage,      \* feedbackId -> Feedback
  issued,               \* every identifier uuidv4 has returned so far
  now,                  \* the canister clock read by new Date()
  call,                 \* the last call: its name and arguments
  ret,                  \* the value the last call returned
  limits,               \* the bounds in force, fixed by the initial state
  userSwapRequests,     \* front end: the requests last fetched for the user
  selectedSwapRequest   \* front end: the fetched request under "Manage Swap"

maps == <<usersStorage, booksStorage, swapRequestsStorage, feedbackStorage>>
vars == <<usersStorage, booksStorage, swapRequestsStorage, feedbackStorage,
          issued, now, call, ret, limits, userSwapRequests, selectedSwapRequest>>

----------------------------------------------------------------------------
(* Bounds of the model: the sizes of the identifier pools of each kind, the  *)
(* number of identifiers uuidv4 issues in all, and the instant after which  *)
(* the clock no longer advances.                                            *)

MaxUsers == 2
MaxBooks == 2
MaxSwaps == 2
MaxFeedbacks == 1
MaxIssued == 4
MaxNow == 1

\* the bounds of the specification of the recent books: more books than
\* getRecentBooks returns, listed over several instants
RecentBooks == 11
RecentNow == 3

\* the bounds of the specification of the swappers: more users with swaps
\* than getTopSwappers and getFeaturedSwappers return
SwapperUsers == 6
SwapperSwaps == 7

----------------------------------------------------------------------------
(* Identifiers, principals and time *)

\* the identifiers uuidv4 returns are named by kind and order of issue
IdsOf(kind, n) == {kind \o ToString(i) : i \in 1..n}
UserIds == IdsOf("u", MaxUsers)
BookIds == IdsOf("b", MaxBooks)
SwapIds == IdsOf("s", MaxSwaps)
FeedbackIds == IdsOf("f", MaxFeedbacks)

\* uuidv4(): an identifier that was never returned before
uuidv4(kind, max) ==
  LET n == Cardinality(issued \cap IdsOf(kind, max))
  IN IF n < max /\ Cardinality(issued) < limits.issued
     THEN {kind \o ToString(n + 1)} ELSE {}

\* callers, one of whom has the text of a feedback identifier
Principals_WithFeedbackId == {"p1", "f1"}

Principals == {"p1", "p2"}

MonthsPerYear == 12
MsPerMonth == 2

\* the time that passes between two calls: a month or a year
Delays == {MsPerMonth, MonthsPerYear * MsPerMonth}

\* Date.prototype.toISOString: the instant as year, month and the rest
toISOString(t) ==
  [year  |-> t \div (MonthsPerYear * MsPerMonth),
   month |-> (t \div MsPerMonth) % MonthsPerYear,
   rest  |-> t % MsPerMonth]

\* new Date(text).getTime(): the instant an ISO text names
getTime(createdAt) ==
  (createdAt.year * MonthsPerYear + createdAt.month) * MsPerMonth + createdAt.rest

\* new Date(text).getMonth() and getFullYear()
getMonth(createdAt) == createdAt.month
getFullYear(createdAt) == createdAt.year

----------------------------------------------------------------------------
(* Texts *)

Empty == << >>
WhiteSpace == {" ", "\t", "\n"}
Digits == {"0", "1", "2", "3", "4", "5", "6", "7", "8", "9"}

\* /^[^\s@]+@[^\s@]+\.[^\s@]+$/
isValidEmail(email) ==
  \E i \in 1..Len(email), j \in 1..Len(email) :
    /\ email[i] = "@"
    /\ email[j] = "."
    /\ 1 < i /\ i + 1 < j /\ j < Len(email)
    /\ \A k \in 1..Len(email) : k # i => email[k] \notin WhiteSpace \cup {"@"}

\* String.prototype.toLowerCase, letter by letter
UpperCase == <<"A", "B", "C", "D", "E", "F", "G", "H", "I", "J", "K", "L", "M",
               "N", "O", "P", "Q", "R", "S", "T", "U", "V", "W", "X", "Y", "Z">>
LowerCase == <<"a", "b", "c", "d", "e", "f", "g", "h", "i", "j", "k", "l", "m",
               "n", "o", "p", "q", "r", "s", "t", "u", "v", "w", "x", "y", "z">>
\* toLowerCase leaving the text as it is
toLowerCase_Identity(text) == text

toLowerCase(text) ==
  [k \in 1..Len(text) |->
     IF \E n \in 1..Len(UpperCase) : UpperCase[n] = text[k]
     THEN LowerCase[CHOOSE n \in 1..Len(UpperCase) : UpperCase[n] = text[k]]
     ELSE text[k]]

\* String.prototype.includes
includes(text, term) ==
  \E i \in 0..Len(text) :
    /\ i + Len(term) <= Len(text)
    /\ SubSeq(text, i + 1, i + Len(term)) = term

\* isValidPhoneNumber for /^\d{1,10}$/
isValidPhoneNumber_AtMostTen(phoneNumber) ==
  /\ Len(phoneNumber) \in 1..10
  /\ \A k \in 1..Len(phoneNumber) : phoneNumber[k] \in Digits

\* /^\d{10}$/
isValidPhoneNumber(phoneNumber) ==
  /\ Len(phoneNumber) = 10
  /\ \A k \in 1..Len(phoneNumber) : phoneNumber[k] \in Digits

----------------------------------------------------------------------------
(* Results *)

Ok(value) == [tag |-> "Ok", val |-> value]
Err(tag, message) == [tag |-> tag, val |-> message]

\* no call is in progress and the last reply has been delivered
NoCall == [op |-> "none"]
NoReply == [tag |-> "none"]
Idle == call = NoCall

\* a call that returns without touching the maps
Return(result) ==
  /\ ret' = result
  /\ UNCHANGED <<usersStorage, booksStorage, swapRequestsStorage,
                 feedbackStorage, issued, now, limits, userSwapRequests, selectedSwapRequest>>

\* StableBTreeMap.insert: creates or overwrites
insert(map, key, value) == [k \in DOMAIN map \cup {key} |->
                              IF k = key THEN value ELSE map[k]]

\* a remove that leaves the entry in the map
remove_Nothing(map, key) == map

\* StableBTreeMap.remove
remove(map, key) == [k \in DOMAIN map \ {key} |-> map[k]]

\* StableBTreeMap.values, as a set (the order is the key order)
values(map) == {map[k] : k \in DOMAIN map}

\* an array given element by element, every element computed once
Array(elements) == SubSeq(elements, 1, Len(elements))

\* StableBTreeMap.values, as the array in key order
valuesInOrder(map, kind, max) ==
  LET keys == SelectSeq([i \in 1..max |-> kind \o ToString(i)],
                        LAMBDA k : k \in DOMAIN map)
  IN Array([i \in 1..Len(keys) |-> map[keys[i]]])

usersValues == valuesInOrder(usersStorage, "u", limits.users)
booksValues == valuesInOrder(booksStorage, "b", limits.books)
swapRequestsValues == valuesInOrder(swapRequestsStorage, "s", limits.swaps)
feedbackValues == valuesInOrder(feedbackStorage, "f", limits.feedbacks)

\* Array.prototype.filter is SelectSeq

\* Array.prototype.slice(0, n)
slice(array, n) == SubSeq(array, 1, IF Len(array) < n THEN Len(array) ELSE n)

\* Array.prototype.sort((a, b) => key(b) - key(a)): descending and stable;
\* keys[i] is the key of array[i]
sortDescending(array, keys) ==
  LET key == Array(keys)
      before(j, i) == \/ key[j] > key[i]
                      \/ key[j] = key[i] /\ j < i
      rank == Array([i \in 1..Len(array) |->
                       1 + Cardinality({j \in 1..Len(array) : before(j, i)})])
  IN Array([p \in 1..Len(array) |->
              array[CHOOSE i \in 1..Len(array) : rank[i] = p]])

----------------------------------------------------------------------------
(* Payloads the callers send *)

NameA == <<"A">>
EmailA == <<"a", "@", "b", ".", "c">>
EmailD == <<"d", "@", "b", ".", "c">>
EmailNoDot == <<"a", "@", "b">>
PhoneOk == <<"0", "1", "2", "3", "4", "5", "6", "7", "8", "9">>
PhoneShort == <<"1", "2", "3">>

ValidUserPayload(email) ==
  [name |-> NameA, email |-> email, phoneNumber |-> PhoneOk]

UserPayloads ==
  {ValidUserPayload(EmailA), ValidUserPayload(EmailD),
   [ValidUserPayload(EmailA) EXCEPT !.name = Empty],
   [ValidUserPayload(EmailA) EXCEPT !.email = EmailNoDot],
   [ValidUserPayload(EmailA) EXCEPT !.phoneNumber = PhoneShort]}

----------------------------------------------------------------------------
(* Users *)

\* emailExists comparing names instead of emails
emailExists_ByName(email) ==
  \E user \in values(usersStorage) : user.name = email

\* the loop over usersStorage.values() in createUserProfile
emailExists(email) ==
  \E user \in values(usersStorage) : user.email = email

\* emailExistsForOther without the loop: an update never collides
emailExistsForOther_Never(email, userId) == FALSE

\* the loop over usersStorage.values() in updateUserProfile
emailExistsForOther(email, userId) ==
  \E user \in values(usersStorage) : user.email = email /\ user.userId # userId

createUserProfile(caller, payload) ==
  /\ Idle
  /\ call' = [op |-> "createUserProfile", caller |-> caller, payload |-> payload]
  /\ IF payload.name = Empty \/ payload.email = Empty \/ payload.phoneNumber = Empty
     THEN Return(Err("InvalidPayload",
                     "All fields (name, email, phone number) are required."))
     ELSE IF ~isValidEmail(payload.email)
     THEN Return(Err("InvalidPayload", "Invalid email format."))
     ELSE IF ~isValidPhoneNumber(payload.phoneNumber)
     THEN Return(Err("InvalidPayload", "Phone number must be a 10-digit number."))
     ELSE IF emailExists(payload.email)
     THEN Return(Err("InvalidPayload", "Email already exists."))
     ELSE \E userId \in uuidv4("u", limits.users) :
            LET newUser == [userId |-> userId,
                            owner |-> caller,
                            name |-> payload.name,
                            email |-> payload.email,
                            phoneNumber |-> payload.phoneNumber,
                            createdAt |-> toISOString(now)]
            IN /\ usersStorage' = insert(usersStorage, userId, newUser)
               /\ issued' = issued \cup {userId}
               /\ ret' = Ok(newUser)
               /\ UNCHANGED <<booksStorage, swapRequestsStorage, feedbackStorage, now, limits, userSwapRequests, selectedSwapRequest>>

\* updatedUser stamping the record anew
updatedUser_Restamped(user, payload) ==
  [user EXCEPT !.name = payload.name,
               !.email = payload.email,
               !.phoneNumber = payload.phoneNumber,
               !.createdAt = toISOString(now)]

\* { ...user, ...payload }
updatedUser(user, payload) ==
  [user EXCEPT !.name = payload.name,
               !.email = payload.email,
               !.phoneNumber = payload.phoneNumber]

updateUserProfile(userId, payload) ==
  /\ Idle
  /\ call' = [op |-> "updateUserProfile", userId |-> userId, payload |-> payload]
  /\ IF payload.name = Empty \/ payload.email = Empty \/ payload.phoneNumber = Empty
     THEN Return(Err("InvalidPayload",
                     "Ensure 'name', 'email', and 'phoneNumber' are provided."))
     ELSE IF ~isValidEmail(payload.email)
     THEN Return(Err("InvalidPayload",
                     "Invalid email format: Ensure the email is in the correct format."))
     ELSE IF emailExistsForOther(payload.email, userId)
     THEN Return(Err("InvalidPayload",
                     "Email already exists: Ensure the email is unique."))
     ELSE IF ~isValidPhoneNumber(payload.phoneNumber)
     THEN Return(Err("InvalidPayload",
                     "Invalid phone number: Ensure the phone number is in the correct format."))
     ELSE IF userId \notin DOMAIN usersStorage
     THEN Return(Err("NotFound", "User not found"))
     ELSE LET updated == updatedUser(usersStorage[userId], payload)
          IN /\ usersStorage' = insert(usersStorage, userId, updated)
             /\ ret' = Ok(updated)
             /\ UNCHANGED <<booksStorage, swapRequestsStorage, feedbackStorage,
                            issued, now, limits, userSwapRequests, selectedSwapRequest>>

----------------------------------------------------------------------------
(* Books *)

TitleT == <<"T">>
AuthorU == <<"U">>
GenreF == <<"F">>
DescriptionD == <<"D">>
ImageUrlI == <<"I">>

ValidBookPayload(userId) ==
  [userId |-> userId, title |-> TitleT, author |-> AuthorU, genre |-> GenreF,
   description |-> DescriptionD, imageUrl |-> ImageUrlI]

\* "" is the empty text, which is no user's identifier
BookPayloads ==
  {ValidBookPayload(u) : u \in UserIds}
  \cup {[ValidBookPayload("") EXCEPT !.title = Empty, !.genre = Empty]}

listBook(payload) ==
  /\ Idle
  /\ call' = [op |-> "listBook", payload |-> payload]
  /\ IF payload.title = Empty \/ payload.author = Empty
        \/ payload.description = Empty \/ payload.imageUrl = Empty
     THEN Return(Err("InvalidPayload",
            "Ensure 'title', 'author', 'description', and 'imageUrl' are provided."))
     ELSE IF payload.userId \notin DOMAIN usersStorage
     THEN Return(Err("NotFound", "User not found"))
     ELSE \E bookId \in uuidv4("b", limits.books) :
            LET book == [bookId |-> bookId,
                         userId |-> payload.userId,
                         title |-> payload.title,
                         author |-> payload.author,
                         genre |-> payload.genre,
                         description |-> payload.description,
                         imageUrl |-> payload.imageUrl,
                         createdAt |-> toISOString(now)]
            IN /\ booksStorage' = insert(booksStorage, bookId, book)
               /\ issued' = issued \cup {bookId}
               /\ ret' = Ok(book)
               /\ UNCHANGED <<usersStorage, swapRequestsStorage, feedbackStorage, now, limits, userSwapRequests, selectedSwapRequest>>

\* updateBook writing the payload under the identifier, stored or not
updateBook_Upsert(bookId, payload) ==
  /\ Idle
  /\ call' = [op |-> "updateBook", bookId |-> bookId, payload |-> payload]
  /\ IF bookId = ""
     THEN Return(Err("InvalidPayload", "Ensure 'bookId' is provided."))
     ELSE LET updatedBook == [bookId |-> bookId,
                              userId |-> payload.userId,
                              title |-> payload.title,
                              author |-> payload.author,
                              genre |-> payload.genre,
                              description |-> payload.description,
                              imageUrl |-> payload.imageUrl,
                              createdAt |-> IF bookId \in DOMAIN booksStorage
                                            THEN booksStorage[bookId].createdAt
                                            ELSE toISOString(now)]
          IN /\ booksStorage' = insert(booksStorage, bookId, updatedBook)
             /\ ret' = Ok(updatedBook)
             /\ UNCHANGED <<usersStorage, swapRequestsStorage, feedbackStorage,
                            issued, now, limits, userSwapRequests, selectedSwapRequest>>

updateBook(bookId, payload) ==
  /\ Idle
  /\ call' = [op |-> "updateBook", bookId |-> bookId, payload |-> payload]
  /\ IF bookId = ""
     THEN Return(Err("InvalidPayload", "Ensure 'bookId' is provided."))
     ELSE IF bookId \notin DOMAIN booksStorage
     THEN Return(Err("NotFound", "Book not found"))
     ELSE LET updatedBook == [booksStorage[bookId] EXCEPT
                                !.userId = payload.userId,
                                !.title = payload.title,
                                !.author = payload.author,
                                !.genre = payload.genre,
                                !.description = payload.description,
                                !.imageUrl = payload.imageUrl]
          IN /\ booksStorage' = insert(booksStorage, bookId, updatedBook)
             /\ ret' = Ok(updatedBook)
             /\ UNCHANGED <<usersStorage, swapRequestsStorage, feedbackStorage,
                            issued, now, limits, userSwapRequests, selectedSwapRequest>>

\* deleteBook removing the swap requests for the book as well
deleteBook_Cascade(bookId) ==
  /\ Idle
  /\ call' = [op |-> "deleteBook", bookId |-> bookId]
  /\ IF bookId \notin DOMAIN booksStorage
     THEN Return(Err("NotFound", "Book not found."))
     ELSE /\ booksStorage' = remove(booksStorage, bookId)
          /\ swapRequestsStorage' =
               [k \in {j \in DOMAIN swapRequestsStorage :
                         swapRequestsStorage[j].bookId # bookId} |->
                  swapRequestsStorage[k]]
          /\ ret' = Ok("null")
          /\ UNCHANGED <<usersStorage, feedbackStorage, issued, now, limits, userSwapRequests, selectedSwapRequest>>

deleteBook(bookId) ==
  /\ Idle
  /\ call' = [op |-> "deleteBook", bookId |-> bookId]
  /\ IF bookId \notin DOMAIN booksStorage
     THEN Return(Err("NotFound", "Book not found."))
     ELSE /\ booksStorage' = remove(booksStorage, bookId)
          /\ ret' = Ok("null")
          /\ UNCHANGED <<usersStorage, swapRequestsStorage, feedbackStorage,
                         issued, now, limits, userSwapRequests, selectedSwapRequest>>

----------------------------------------------------------------------------
(* Swap requests *)

SwapRequestPayloadOf(ownerId, requesterId, bookId) ==
  [ownerId |-> ownerId, requesterId |-> requesterId, bookId |-> bookId]

SwapRequestPayloads ==
  {SwapRequestPayloadOf("u1", r, "b1") : r \in UserIds}
  \cup {SwapRequestPayloadOf("", "u1", "b1")}

\* createSwapRequest without its first loop
tripleExists_Never(payload) == FALSE

\* the first loop of createSwapRequest: over all stored requests
tripleExists(payload) ==
  \E swapRequest \in values(swapRequestsStorage) :
    /\ swapRequest.ownerId = payload.ownerId
    /\ swapRequest.requesterId = payload.requesterId
    /\ swapRequest.bookId = payload.bookId

\* the second loop matching any Completed request for the same book
completedTripleExists_SameBook(payload) ==
  \E swapRequest \in values(swapRequestsStorage) :
    swapRequest.status = "Completed" /\ swapRequest.bookId = payload.bookId

\* the second loop of createSwapRequest: over the requests already Completed
completedTripleExists(payload) ==
  LET acceptedSwapRequests == {swapRequest \in values(swapRequestsStorage) :
                                 swapRequest.status = "Completed"}
  IN \E swapRequest \in acceptedSwapRequests :
       /\ swapRequest.ownerId = payload.ownerId
       /\ swapRequest.requesterId = payload.requesterId
       /\ swapRequest.bookId = payload.bookId

\* newSwapRequest with the owner and the requester interchanged
newSwapRequest_Swapped(swapRequestId, payload) ==
  [swapRequestId |-> swapRequestId,
   ownerId |-> payload.requesterId,
   requesterId |-> payload.ownerId,
   bookId |-> payload.bookId,
   status |-> "Pending",
   createdAt |-> toISOString(now)]

\* { ...payload, swapRequestId, status: "Pending", createdAt }
newSwapRequest(swapRequestId, payload) ==
  [swapRequestId |-> swapRequestId,
   ownerId |-> payload.ownerId,
   requesterId |-> payload.requesterId,
   bookId |-> payload.bookId,
   status |-> "Pending",
   createdAt |-> toISOString(now)]

\* acceptedSwapRequest stamping the request anew
acceptedSwapRequest_Restamped(swapRequest) ==
  [swapRequest EXCEPT !.status = "Completed", !.createdAt = toISOString(now)]

\* acceptedSwapRequest writing the word of its comment
acceptedSwapRequest_Accepted(swapRequest) ==
  [swapRequest EXCEPT !.status = "Accepted"]

\* { ...swapRequest, status: "Completed" }
acceptedSwapRequest(swapRequest) == [swapRequest EXCEPT !.status = "Completed"]

\* { ...swapRequest, status: "Rejected" }
rejectedSwapRequest(swapRequest) == [swapRequest EXCEPT !.status = "Rejected"]

\* createSwapRequest looking for the book before the users
createSwapRequest_BookFirst(payload) ==
  /\ Idle
  /\ call' = [op |-> "createSwapRequest", payload |-> payload]
  /\ IF payload.ownerId = "" \/ payload.requesterId = "" \/ payload.bookId = ""
     THEN Return(Err("InvalidPayload",
            "Ensure 'ownerId', 'requesterId', and 'bookId' are provided."))
     ELSE IF payload.bookId \notin DOMAIN booksStorage
     THEN Return(Err("NotFound", "Book not found"))
     ELSE IF payload.ownerId \notin DOMAIN usersStorage
     THEN Return(Err("NotFound", "User not found"))
     ELSE IF payload.requesterId \notin DOMAIN usersStorage
     THEN Return(Err("NotFound", "Requester not found"))
     ELSE IF tripleExists(payload)
     THEN Return(Err("InvalidPayload",
            "Swap request already exists: Ensure the swap request is unique."))
     ELSE IF completedTripleExists(payload)
     THEN Return(Err("InvalidPayload",
            "Swap request already exists: Ensure the swap request is unique."))
     ELSE \E swapRequestId \in uuidv4("s", limits.swaps) :
            LET swapRequest == newSwapRequest(swapRequestId, payload)
            IN /\ swapRequestsStorage' =
                    insert(swapRequestsStorage, swapRequestId, swapRequest)
               /\ issued' = issued \cup {swapRequestId}
               /\ ret' = Ok(swapRequest)
               /\ UNCHANGED <<usersStorage, booksStorage, feedbackStorage, now, limits, userSwapRequests, selectedSwapRequest>>

createSwapRequest(payload) ==
  /\ Idle
  /\ call' = [op |-> "createSwapRequest", payload |-> payload]
  /\ IF payload.ownerId = "" \/ payload.requesterId = "" \/ payload.bookId = ""
     THEN Return(Err("InvalidPayload",
            "Ensure 'ownerId', 'requesterId', and 'bookId' are provided."))
     ELSE IF payload.ownerId \notin DOMAIN usersStorage
     THEN Return(Err("NotFound", "User not found"))
     ELSE IF payload.requesterId \notin DOMAIN usersStorage
     THEN Return(Err("NotFound", "Requester not found"))
     ELSE IF payload.bookId \notin DOMAIN booksStorage
     THEN Return(Err("NotFound", "Book not found"))
     ELSE IF tripleExists(payload)
     THEN Return(Err("InvalidPayload",
            "Swap request already exists: Ensure the swap request is unique."))
     ELSE IF completedTripleExists(payload)
     THEN Return(Err("InvalidPayload",
            "Swap request already exists: Ensure the swap request is unique."))
     ELSE \E swapRequestId \in uuidv4("s", limits.swaps) :
            LET swapRequest == newSwapRequest(swapRequestId, payload)
            IN /\ swapRequestsStorage' =
                    insert(swapRequestsStorage, swapRequestId, swapRequest)
               /\ issued' = issued \cup {swapRequestId}
               /\ ret' = Ok(swapRequest)
               /\ UNCHANGED <<usersStorage, booksStorage, feedbackStorage, now, limits, userSwapRequests, selectedSwapRequest>>

\* updatedSwapRequest putting the request back to Pending
updatedSwapRequest_Reset(swapRequest, payload) ==
  [swapRequest EXCEPT !.ownerId = payload.ownerId,
                      !.requesterId = payload.requesterId,
                      !.bookId = payload.bookId,
                      !.status = "Pending"]

\* { ...swapRequest, ...payload }
updatedSwapRequest(swapRequest, payload) ==
  [swapRequest EXCEPT !.ownerId = payload.ownerId,
                      !.requesterId = payload.requesterId,
                      !.bookId = payload.bookId]

updateSwapRequest(swapRequestId, payload) ==
  /\ Idle
  /\ call' = [op |-> "updateSwapRequest", swapRequestId |-> swapRequestId,
              payload |-> payload]
  /\ IF swapRequestId \notin DOMAIN swapRequestsStorage
     THEN Return(Err("NotFound", "Swap request not found."))
     ELSE LET updated ==
                updatedSwapRequest(swapRequestsStorage[swapRequestId], payload)
          IN /\ swapRequestsStorage' =
                  insert(swapRequestsStorage, swapRequestId, updated)
             /\ ret' = Ok(updated)
             /\ UNCHANGED <<usersStorage, booksStorage, feedbackStorage, issued, now, limits, userSwapRequests, selectedSwapRequest>>

\* the handler of acceptSwapRequest, as it acts on the canister
acceptSwapRequestHandler(swapRequestId) ==
  IF swapRequestId \notin DOMAIN swapRequestsStorage
  THEN Return(Err("NotFound", "Swap request not found."))
  ELSE LET updated == acceptedSwapRequest(swapRequestsStorage[swapRequestId])
       IN /\ swapRequestsStorage' =
               insert(swapRequestsStorage, swapRequestId, updated)
          /\ ret' = Ok(updated)
          /\ UNCHANGED <<usersStorage, booksStorage, feedbackStorage, issued, now, limits>>

acceptSwapRequest(swapRequestId) ==
  /\ Idle
  /\ call' = [op |-> "acceptSwapRequest", swapRequestId |-> swapRequestId]
  /\ acceptSwapRequestHandler(swapRequestId)
  /\ UNCHANGED <<userSwapRequests, selectedSwapRequest>>

\* rejectSwapRequest also rejecting the other requests for the same book
rejectSwapRequest_Cascade(swapRequestId) ==
  /\ Idle
  /\ call' = [op |-> "rejectSwapRequest", swapRequestId |-> swapRequestId]
  /\ IF swapRequestId \notin DOMAIN swapRequestsStorage
     THEN Return(Err("NotFound", "Swap request not found"))
     ELSE LET bookId == swapRequestsStorage[swapRequestId].bookId
          IN /\ swapRequestsStorage' =
                  [k \in DOMAIN swapRequestsStorage |->
                     IF swapRequestsStorage[k].bookId = bookId
                     THEN [swapRequestsStorage[k] EXCEPT !.status = "Rejected"]
                     ELSE swapRequestsStorage[k]]
             /\ ret' = Ok(swapRequestsStorage'[swapRequestId])
             /\ UNCHANGED <<usersStorage, booksStorage, feedbackStorage, issued, now, limits, userSwapRequests, selectedSwapRequest>>

\* the handler of rejectSwapRequest, as it acts on the canister
rejectSwapRequestHandler(swapRequestId) ==
  IF swapRequestId \notin DOMAIN swapRequestsStorage
  THEN Return(Err("NotFound", "Swap request not found"))
  ELSE LET updated == rejectedSwapRequest(swapRequestsStorage[swapRequestId])
       IN /\ swapRequestsStorage' =
               insert(swapRequestsStorage, swapRequestId, updated)
          /\ ret' = Ok(updated)
          /\ UNCHANGED <<usersStorage, booksStorage, feedbackStorage, issued, now, limits>>

rejectSwapRequest(swapRequestId) ==
  /\ Idle
  /\ call' = [op |-> "rejectSwapRequest", swapRequestId |-> swapRequestId]
  /\ rejectSwapRequestHandler(swapRequestId)
  /\ UNCHANGED <<userSwapRequests, selectedSwapRequest>>

\* deleteSwapRequest removing the requested book along with the request
deleteSwapRequest_WithBook(swapRequestId) ==
  /\ Idle
  /\ call' = [op |-> "deleteSwapRequest", swapRequestId |-> swapRequestId]
  /\ IF swapRequestId \notin DOMAIN swapRequestsStorage
     THEN Return(Err("NotFound", "Swap request not found"))
     ELSE /\ swapRequestsStorage' = remove(swapRequestsStorage, swapRequestId)
          /\ booksStorage' =
               remove(booksStorage, swapRequestsStorage[swapRequestId].bookId)
          /\ ret' = Ok("null")
          /\ UNCHANGED <<usersStorage, feedbackStorage, issued, now, limits, userSwapRequests, selectedSwapRequest>>

deleteSwapRequest(swapRequestId) ==
  /\ Idle
  /\ call' = [op |-> "deleteSwapRequest", swapRequestId |-> swapRequestId]
  /\ IF swapRequestId \notin DOMAIN swapRequestsStorage
     THEN Return(Err("NotFound", "Swap request not found"))
     ELSE /\ swapRequestsStorage' = remove(swapRequestsStorage, swapRequestId)
          /\ ret' = Ok("null")
          /\ UNCHANGED <<usersStorage, booksStorage, feedbackStorage, issued, now, limits, userSwapRequests, selectedSwapRequest>>

----------------------------------------------------------------------------
(* Feedback *)

CommentC == <<"C">>

ValidFeedbackPayload(userId, swapRequestId) ==
  [userId |-> userId, swapRequestId |-> swapRequestId, rating |-> 5,
   comment |-> CommentC]

FeedbackPayloads ==
  {ValidFeedbackPayload("u1", s) : s \in SwapIds}
  \cup {[ValidFeedbackPayload("u1", "s1") EXCEPT !.rating = 0],
        [ValidFeedbackPayload("u1", "s1") EXCEPT !.comment = Empty]}

\* missingFeedbackFields looking at the rating only
missingFeedbackFields_RatingOnly(payload) == payload.rating = 0

\* !payload.rating || !payload.comment
missingFeedbackFields(payload) == payload.rating = 0 \/ payload.comment = Empty

\* createFeedback storing the record before it looks the swap request up
createFeedback_StoreFirst(payload) ==
  /\ Idle
  /\ call' = [op |-> "createFeedback", payload |-> payload]
  /\ IF missingFeedbackFields(payload)
     THEN Return(Err("InvalidPayload", "Ensure 'rating' and 'comment' are provided."))
     ELSE IF payload.userId \notin DOMAIN usersStorage
     THEN Return(Err("NotFound", "User not found."))
     ELSE \E feedbackId \in uuidv4("f", limits.feedbacks) :
            LET feedback == [feedbackId |-> feedbackId,
                             userId |-> payload.userId,
                             swapRequestId |-> payload.swapRequestId,
                             rating |-> payload.rating,
                             comment |-> payload.comment,
                             createdAt |-> toISOString(now)]
            IN /\ feedbackStorage' = insert(feedbackStorage, feedbackId, feedback)
               /\ issued' = issued \cup {feedbackId}
               /\ ret' = IF payload.swapRequestId \notin DOMAIN swapRequestsStorage
                         THEN Err("NotFound", "Swap request not found.")
                         ELSE Ok(feedback)
               /\ UNCHANGED <<usersStorage, booksStorage, swapRequestsStorage, now, limits, userSwapRequests, selectedSwapRequest>>

createFeedback(payload) ==
  /\ Idle
  /\ call' = [op |-> "createFeedback", payload |-> payload]
  /\ IF missingFeedbackFields(payload)
     THEN Return(Err("InvalidPayload", "Ensure 'rating' and 'comment' are provided."))
     ELSE IF payload.userId \notin DOMAIN usersStorage
     THEN Return(Err("NotFound", "User not found."))
     ELSE IF payload.swapRequestId \notin DOMAIN swapRequestsStorage
     THEN Return(Err("NotFound", "Swap request not found."))
     ELSE \E feedbackId \in uuidv4("f", limits.feedbacks) :
            LET feedback == [feedbackId |-> feedbackId,
                             userId |-> payload.userId,
                             swapRequestId |-> payload.swapRequestId,
                             rating |-> payload.rating,
                             comment |-> payload.comment,
                             createdAt |-> toISOString(now)]
            IN /\ feedbackStorage' = insert(feedbackStorage, feedbackId, feedback)
               /\ issued' = issued \cup {feedbackId}
               /\ ret' = Ok(feedback)
               /\ UNCHANGED <<usersStorage, booksStorage, swapRequestsStorage, now, limits, userSwapRequests, selectedSwapRequest>>

\* updateFeedbackHandler giving the first principal the first feedback
updateFeedbackHandler_OwnRecord(caller, payload) ==
  IF missingFeedbackFields(payload)
  THEN Return(Err("InvalidPayload", "Ensure 'rating' and 'comment' are provided."))
  ELSE LET feedbackId == IF caller = "p1" THEN "f1" ELSE caller
       IN IF feedbackId \notin DOMAIN feedbackStorage
          THEN Return(Err("NotFound", "Feedback not found"))
          ELSE LET updatedFeedback == [feedbackStorage[feedbackId] EXCEPT
                                         !.userId = payload.userId,
                                         !.swapRequestId = payload.swapRequestId,
                                         !.rating = payload.rating,
                                         !.comment = payload.comment]
               IN /\ feedbackStorage' =
                       insert(feedbackStorage, feedbackId, updatedFeedback)
                  /\ ret' = Ok(updatedFeedback)
                  /\ UNCHANGED <<usersStorage, booksStorage, swapRequestsStorage,
                                 issued, now, limits, userSwapRequests, selectedSwapRequest>>

\* the handler of updateFeedback: the record is looked up under the caller's
\* principal text
updateFeedbackHandler(caller, payload) ==
  IF missingFeedbackFields(payload)
  THEN Return(Err("InvalidPayload", "Ensure 'rating' and 'comment' are provided."))
  ELSE LET feedbackId == caller
       IN IF feedbackId \notin DOMAIN feedbackStorage
          THEN Return(Err("NotFound", "Feedback not found"))
          ELSE LET updatedFeedback == [feedbackStorage[feedbackId] EXCEPT
                                         !.userId = payload.userId,
                                         !.swapRequestId = payload.swapRequestId,
                                         !.rating = payload.rating,
                                         !.comment = payload.comment]
               IN /\ feedbackStorage' =
                       insert(feedbackStorage, feedbackId, updatedFeedback)
                  /\ ret' = Ok(updatedFeedback)
                  /\ UNCHANGED <<usersStorage, booksStorage, swapRequestsStorage,
                                 issued, now, limits, userSwapRequests, selectedSwapRequest>>

updateFeedback(caller, payload) ==
  /\ Idle
  /\ call' = [op |-> "updateFeedback", caller |-> caller, payload |-> payload]
  /\ updateFeedbackHandler(caller, payload)

\* deleteFeedback without the lookup
deleteFeedback_Unchecked(feedbackId) ==
  /\ Idle
  /\ call' = [op |-> "deleteFeedback", feedbackId |-> feedbackId]
  /\ feedbackStorage' = remove(feedbackStorage, feedbackId)
  /\ ret' = Ok("null")
  /\ UNCHANGED <<usersStorage, booksStorage, swapRequestsStorage, issued, now, limits, userSwapRequests, selectedSwapRequest>>

deleteFeedback(feedbackId) ==
  /\ Idle
  /\ call' = [op |-> "deleteFeedback", feedbackId |-> feedbackId]
  /\ IF feedbackId \notin DOMAIN feedbackStorage
     THEN Return(Err("NotFound", "Feedback not found"))
     ELSE /\ feedbackStorage' = remove(feedbackStorage, feedbackId)
          /\ ret' = Ok("null")
          /\ UNCHANGED <<usersStorage, booksStorage, swapRequestsStorage, issued, now, limits, userSwapRequests, selectedSwapRequest>>

----------------------------------------------------------------------------
(* Queries: each computes its result from the maps and writes nothing.      *)
(* The result of a query is a definition of its own, the call an action.    *)

\* the genres and the search terms the callers ask for
Genres == {GenreF, Empty}
SearchTerms == {<<"t">>, <<"X">>, Empty}

getUserProfileResult(userId) ==
  IF userId \notin DOMAIN usersStorage
  THEN Err("NotFound", "User not found")
  ELSE Ok(usersStorage[userId])

getUserProfile(userId) ==
  /\ Idle
  /\ call' = [op |-> "getUserProfile", userId |-> userId]
  /\ Return(getUserProfileResult(userId))

getUserProfileByOwner(caller) ==
  /\ Idle
  /\ call' = [op |-> "getUserProfileByOwner", caller |-> caller]
  /\ LET userProfile == SelectSeq(usersValues, LAMBDA user : user.owner = caller)
     IN IF Len(userProfile) = 0
        THEN Return(Err("NotFound", "User not found"))
        ELSE Return(Ok(userProfile[1]))

getTotalUsers ==
  /\ Idle
  /\ call' = [op |-> "getTotalUsers"]
  /\ Return(Ok(Len(usersValues)))

getBookResult(bookId) ==
  IF bookId \notin DOMAIN booksStorage
  THEN Err("NotFound", "Book not found")
  ELSE Ok(booksStorage[bookId])

getBook(bookId) ==
  /\ Idle
  /\ call' = [op |-> "getBook", bookId |-> bookId]
  /\ Return(getBookResult(bookId))

getBooksByUser(userId) ==
  /\ Idle
  /\ call' = [op |-> "getBooksByUser", userId |-> userId]
  /\ Return(Ok(SelectSeq(booksValues, LAMBDA book : book.userId = userId)))

getBooksByGenre(genre) ==
  /\ Idle
  /\ call' = [op |-> "getBooksByGenre", genre |-> genre]
  /\ Return(Ok(SelectSeq(booksValues, LAMBDA book : book.genre = genre)))

\* getAllBooks without the test for an empty array
getAllBooks_Unchecked ==
  /\ Idle
  /\ call' = [op |-> "getAllBooks"]
  /\ Return(Ok(booksValues))

getAllBooks ==
  /\ Idle
  /\ call' = [op |-> "getAllBooks"]
  /\ IF Len(booksValues) = 0
     THEN Return(Err("NotFound", "No books found"))
     ELSE Return(Ok(booksValues))

getTotalBooks ==
  /\ Idle
  /\ call' = [op |-> "getTotalBooks"]
  /\ Return(Ok(Len(booksValues)))

searchBooks(searchTerm) ==
  /\ Idle
  /\ call' = [op |-> "searchBooks", searchTerm |-> searchTerm]
  /\ LET matches(book) ==
           \/ includes(toLowerCase(book.title), toLowerCase(searchTerm))
           \/ includes(toLowerCase(book.author), toLowerCase(searchTerm))
           \/ includes(toLowerCase(book.genre), toLowerCase(searchTerm))
         books == SelectSeq(booksValues, matches)
     IN IF Len(books) = 0
        THEN Return(Err("NotFound", "No books found matching the search term."))
        ELSE Return(Ok(books))

getNumberOfBooks(userId) ==
  /\ Idle
  /\ call' = [op |-> "getNumberOfBooks", userId |-> userId]
  /\ Return(Ok(Len(SelectSeq(booksValues, LAMBDA book : book.userId = userId))))

getSwapRequestResult(swapRequestId) ==
  IF swapRequestId \notin DOMAIN swapRequestsStorage
  THEN Err("NotFound", "Swap request not found.")
  ELSE Ok(swapRequestsStorage[swapRequestId])

getSwapRequest(swapRequestId) ==
  /\ Idle
  /\ call' = [op |-> "getSwapRequest", swapRequestId |-> swapRequestId]
  /\ Return(getSwapRequestResult(swapRequestId))

\* involves looking at the owner only
involves_OwnerOnly(swapRequest, userId) == swapRequest.ownerId = userId

\* swap.ownerId === userId || swap.requesterId === userId
involves(swapRequest, userId) ==
  swapRequest.ownerId = userId \/ swapRequest.requesterId = userId

getSwapsByUser(userId) ==
  /\ Idle
  /\ call' = [op |-> "getSwapsByUser", userId |-> userId]
  /\ Return(Ok(Len(SelectSeq(swapRequestsValues,
                          LAMBDA swap : involves(swap, userId)))))

getSwapRequestsByUser(userId) ==
  /\ Idle
  /\ call' = [op |-> "getSwapRequestsByUser", userId |-> userId]
  /\ Return(Ok(SelectSeq(swapRequestsValues,
                      LAMBDA swapRequest : involves(swapRequest, userId))))

getNumberOfPendingSwapRequests(userId) ==
  /\ Idle
  /\ call' = [op |-> "getNumberOfPendingSwapRequests", userId |-> userId]
  /\ Return(Ok(Len(SelectSeq(swapRequestsValues,
                          LAMBDA swapRequest :
                            /\ involves(swapRequest, userId)
                            /\ swapRequest.status = "Pending"))))

getNumberOfCompletedSwapRequests(userId) ==
  /\ Idle
  /\ call' = [op |-> "getNumberOfCompletedSwapRequests", userId |-> userId]
  /\ Return(Ok(Len(SelectSeq(swapRequestsValues,
                          LAMBDA swapRequest :
                            /\ involves(swapRequest, userId)
                            /\ swapRequest.status = "Completed"))))

getSwapRequestsForUserResult(userId) ==
  LET swapRequests == SelectSeq(swapRequestsValues,
                             LAMBDA swapRequest : swapRequest.ownerId = userId)
  IN IF userId \notin DOMAIN usersStorage
     THEN Err("NotFound", "User not found")
     ELSE IF Len(swapRequests) = 0
     THEN Err("NotFound", "No swap requests found for this user.")
     ELSE Ok(swapRequests)

getSwapRequestsForUser(userId) ==
  /\ Idle
  /\ call' = [op |-> "getSwapRequestsForUser", userId |-> userId]
  /\ Return(getSwapRequestsForUserResult(userId))

getAllSwapRequests ==
  /\ Idle
  /\ call' = [op |-> "getAllSwapRequests"]
  /\ IF Len(swapRequestsValues) = 0
     THEN Return(Err("NotFound", "No swap requests found"))
     ELSE Return(Ok(swapRequestsValues))

getTotalCompletedSwapRequests ==
  /\ Idle
  /\ call' = [op |-> "getTotalCompletedSwapRequests"]
  /\ Return(Ok(Len(SelectSeq(swapRequestsValues,
                          LAMBDA swapRequest : swapRequest.status = "Completed"))))

\* byCreatedAt leaving the books in the order of the map
byCreatedAt_Unsorted(books) == books

\* the books in descending order of createdAt
byCreatedAt(books) ==
  sortDescending(books, [i \in 1..Len(books) |-> getTime(books[i].createdAt)])

getRecentBooks ==
  /\ Idle
  /\ call' = [op |-> "getRecentBooks"]
  /\ LET recentBooks == slice(byCreatedAt(booksValues), 10)
     IN IF Len(recentBooks) = 0
        THEN Return(Err("NotFound", "No recent books found."))
        ELSE Return(Ok(recentBooks))

getFeedbackResult(feedbackId) ==
  IF feedbackId \notin DOMAIN feedbackStorage
  THEN Err("NotFound", "Feedback not found")
  ELSE Ok(feedbackStorage[feedbackId])

getFeedback(feedbackId) ==
  /\ Idle
  /\ call' = [op |-> "getFeedback", feedbackId |-> feedbackId]
  /\ Return(getFeedbackResult(feedbackId))

\* the canister object names getFeedbacksByUser twice; the later definition
\* is the one the object keeps
getFeedbacksByUser(userId) ==
  /\ Idle
  /\ call' = [op |-> "getFeedbacksByUser", userId |-> userId]
  /\ Return(Ok(SelectSeq(feedbackValues, LAMBDA feedback : feedback.userId = userId)))

getAllFeedbacks ==
  /\ Idle
  /\ call' = [op |-> "getAllFeedbacks"]
  /\ IF Len(feedbackValues) = 0
     THEN Return(Err("NotFound", "No feedbacks found"))
     ELSE Return(Ok(feedbackValues))

getFeedbacksBySwapRequest(swapRequestId) ==
  /\ Idle
  /\ call' = [op |-> "getFeedbacksBySwapRequest", swapRequestId |-> swapRequestId]
  /\ Return(Ok(SelectSeq(feedbackValues,
                      LAMBDA feedback : feedback.swapRequestId = swapRequestId)))

\* azle's Opt values
Some(value) == [Some |-> value]
None == [None |-> "null"]

\* what a callback that returns nothing yields
undefined == [undefined |-> "undefined"]

\* the swap requests completed, and created in the month and year of now
completedThisMonth ==
  SelectSeq(swapRequestsValues,
         LAMBDA swap :
           /\ swap.status = "Completed"
           /\ getMonth(swap.createdAt) = getMonth(toISOString(now))
           /\ getFullYear(swap.createdAt) = getFullYear(toISOString(now)))

\* lastBookOf without the sort: the first book of the user in the map
lastBookOf_Unsorted(userId) ==
  LET userBooks == SelectSeq(booksValues, LAMBDA book : book.userId = userId)
  IN IF Len(userBooks) > 0 THEN Some(userBooks[1]) ELSE None

\* the most recently listed book of a user, if any
lastBookOf(userId) ==
  LET userBooks == byCreatedAt(SelectSeq(booksValues,
                                      LAMBDA book : book.userId = userId))
  IN IF Len(userBooks) > 0 THEN Some(userBooks[1]) ELSE None

\* Array.from(map.entries()) of a Map filled by running through ids: the
\* distinct ids in the order of their first appearance
entries(ids) ==
  LET firsts == SelectSeq([i \in 1..Len(ids) |-> i],
                          LAMBDA i : \A j \in 1..(i - 1) : ids[j] # ids[i])
  IN Array([k \in 1..Len(firsts) |-> ids[firsts[k]]])

\* the entries of a count map: each id with the number of the requests that
\* set its counter, set[j] being the ids whose counter request j sets
countEntries(ids, set) ==
  Array([k \in 1..Len(ids) |->
           [userId |-> ids[k],
            count |-> Cardinality({j \in 1..Len(set) : ids[k] \in set[j]})]])

\* byCount leaving the entries in the order of the map
byCount_Unsorted(swapCounts) == swapCounts

\* sort((a, b) => b[1].count - a[1].count)
byCount(swapCounts) ==
  sortDescending(swapCounts,
                 Array([i \in 1..Len(swapCounts) |-> swapCounts[i].count]))

\* filter(user => user !== undefined)
defined(array) == SelectSeq(array, LAMBDA user : user # undefined)

\* the map callback of getTopSwappers
topSwapper(entry) ==
  IF entry.userId \in DOMAIN usersStorage
  THEN [userId |-> entry.userId,
        name |-> usersStorage[entry.userId].name,
        swapsCompleted |-> entry.count,
        lastBookDetails |-> lastBookOf(entry.userId)]
  ELSE undefined

\* sorted, cut to five, mapped, and only then filtered
topSwappersOf(swapCountMap) ==
  LET sorted == slice(byCount(swapCountMap), 5)
  IN defined(Array([k \in 1..Len(sorted) |-> topSwapper(sorted[k])]))

\* ownerCounts raising the counter of the requester as well
ownerCounts_WithRequesters(completedSwaps) ==
  countEntries(entries(Array([k \in 1..(2 * Len(completedSwaps)) |->
                                IF k % 2 = 1
                                THEN completedSwaps[(k + 1) \div 2].ownerId
                                ELSE completedSwaps[k \div 2].requesterId])),
               Array([j \in 1..Len(completedSwaps) |->
                        {completedSwaps[j].ownerId, completedSwaps[j].requesterId}]))

\* the counter of the owner of each completed swap is raised by one
ownerCounts(completedSwaps) ==
  countEntries(entries(Array([j \in 1..Len(completedSwaps) |->
                                completedSwaps[j].ownerId])),
               Array([j \in 1..Len(completedSwaps) |->
                        {completedSwaps[j].ownerId}]))

getTopSwappersResult(topSwappers) ==
  IF Len(topSwappers) = 0
  THEN Err("NotFound", "No top swappers found this month.")
  ELSE Ok(topSwappers)

getTopSwappers ==
  /\ Idle
  /\ call' = [op |-> "getTopSwappers"]
  /\ Return(getTopSwappersResult(topSwappersOf(ownerCounts(completedThisMonth))))

\* the map callback of getFeaturedSwappers
featuredSwapper(entry) ==
  IF entry.userId \in DOMAIN usersStorage
  THEN [username |-> usersStorage[entry.userId].name,
        booksSwapped |-> entry.count,
        userId |-> usersStorage[entry.userId].userId,
        bookDetails |-> lastBookOf(entry.userId)]
  ELSE undefined

\* sorted, mapped, filtered, and only then cut to five
featuredSwappersOf(swapCountPerUser) ==
  LET sorted == byCount(swapCountPerUser)
  IN slice(defined(Array([k \in 1..Len(sorted) |-> featuredSwapper(sorted[k])])),
           5)

\* for each completed request the counts of its requester and of its owner
\* are read, and then each is set to the count read plus one, the requester's
\* first: a request whose requester is its owner raises the count by one
bothCounts(completedSwapRequests) ==
  countEntries(entries(Array([k \in 1..(2 * Len(completedSwapRequests)) |->
                                IF k % 2 = 1
                                THEN completedSwapRequests[(k + 1) \div 2].requesterId
                                ELSE completedSwapRequests[k \div 2].ownerId])),
               Array([j \in 1..Len(completedSwapRequests) |->
                        {completedSwapRequests[j].requesterId,
                         completedSwapRequests[j].ownerId}]))

getFeaturedSwappersResult(featuredSwappers) ==
  IF Len(featuredSwappers) = 0
  THEN Err("NotFound", "No featured swappers found for this month.")
  ELSE Ok(featuredSwappers)

getFeaturedSwappers ==
  /\ Idle
  /\ call' = [op |-> "getFeaturedSwappers"]
  /\ Return(getFeaturedSwappersResult(
              featuredSwappersOf(bothCounts(completedThisMonth))))

----------------------------------------------------------------------------
(* The environment: replies are delivered and time passes between calls *)

Reply ==
  /\ ~Idle
  /\ call' = NoCall
  /\ ret' = NoReply
  /\ UNCHANGED <<usersStorage, booksStorage, swapRequestsStorage, feedbackStorage,
                 issued, now, limits, userSwapRequests, selectedSwapRequest>>

Tick ==
  /\ Idle
  /\ now < limits.now
  /\ \E d \in Delays : now' = now + d
  /\ UNCHANGED <<usersStorage, booksStorage, swapRequestsStorage, feedbackStorage,
                 issued, call, ret, limits, userSwapRequests, selectedSwapRequest>>

----------------------------------------------------------------------------
(* The front end: the swap-request tab of the book list                     *)
(* (src/dfinity_js_frontend/src/components/BookManagement/                  *)
(* ListAvailableBooks.js). Its acceptSwapRequest and rejectSwapRequest pass *)
(* the identifier to the canister method of the same name.                  *)

\* the value of useState(null)
null == [null |-> "null"]

\* the user prop: the user the book list is shown to
currentUser == [userId |-> "u1"]

\* toast.warning
warning(text) == [tag |-> "warning", val |-> text]

\* setUserSwapRequests(response.Ok) when the response is Ok
fetched(response) == IF response.tag = "Ok" THEN response.val ELSE userSwapRequests

fetchUserSwapRequests ==
  /\ Idle
  /\ call' = [op |-> "fetchUserSwapRequests"]
  /\ ret' = getSwapRequestsForUserResult(currentUser.userId)
  /\ userSwapRequests' = fetched(getSwapRequestsForUserResult(currentUser.userId))
  /\ UNCHANGED <<usersStorage, booksStorage, swapRequestsStorage, feedbackStorage,
                 issued, now, limits, selectedSwapRequest>>

\* the "Manage Swap" button of one of the requests shown
handleManageSwap(request) ==
  /\ Idle
  /\ selectedSwapRequest' = request
  /\ UNCHANGED <<usersStorage, booksStorage, swapRequestsStorage, feedbackStorage,
                 issued, now, call, ret, limits, userSwapRequests>>

\* the "Accept" button: the call is made unless the fetched copy is Completed,
\* and the requests are fetched again when it succeeds
handleAcceptSwap ==
  /\ Idle
  /\ selectedSwapRequest # null
  /\ IF selectedSwapRequest.status = "Completed"
     THEN /\ call' = [op |-> "handleAcceptSwap"]
          /\ ret' = warning("Swap is already completed")
          /\ UNCHANGED <<usersStorage, booksStorage, swapRequestsStorage,
                         feedbackStorage, issued, now, limits,
                         userSwapRequests, selectedSwapRequest>>
     ELSE /\ call' = [op |-> "handleAcceptSwap",
                      swapRequestId |-> selectedSwapRequest.swapRequestId]
          /\ acceptSwapRequestHandler(selectedSwapRequest.swapRequestId)
          /\ IF ret'.tag = "Ok"
             THEN /\ userSwapRequests' =
                       fetched(getSwapRequestsForUserResult(currentUser.userId)')
                  /\ UNCHANGED selectedSwapRequest
             ELSE UNCHANGED <<userSwapRequests, selectedSwapRequest>>

\* the "Reject" button: the call is made unless the fetched copy is Rejected
handleRejectSwap ==
  /\ Idle
  /\ selectedSwapRequest # null
  /\ IF selectedSwapRequest.status = "Rejected"
     THEN /\ call' = [op |-> "handleRejectSwap"]
          /\ ret' = warning("Swap is already completed")
          /\ UNCHANGED <<usersStorage, booksStorage, swapRequestsStorage,
                         feedbackStorage, issued, now, limits,
                         userSwapRequests, selectedSwapRequest>>
     ELSE /\ call' = [op |-> "handleRejectSwap",
                      swapRequestId |-> selectedSwapRequest.swapRequestId]
          /\ rejectSwapRequestHandler(selectedSwapRequest.swapRequestId)
          /\ IF ret'.tag = "Ok"
             THEN /\ userSwapRequests' =
                       fetched(getSwapRequestsForUserResult(currentUser.userId)')
                  /\ UNCHANGED selectedSwapRequest
             ELSE UNCHANGED <<userSwapRequests, selectedSwapRequest>>

----------------------------------------------------------------------------
(* The canister *)

EmptyMap == [k \in {} |-> {}]

\* the canister as deployed: nothing stored, no call made; the bounds given
Deployed(bounds) ==
  /\ usersStorage = EmptyMap
  /\ booksStorage = EmptyMap
  /\ swapRequestsStorage = EmptyMap
  /\ feedbackStorage = EmptyMap
  /\ issued = {}
  /\ now = 0
  /\ call = NoCall
  /\ ret = NoReply
  /\ limits = bounds
  /\ userSwapRequests = << >>
  /\ selectedSwapRequest = null

Init ==
  Deployed([users |-> MaxUsers, books |-> MaxBooks, swaps |-> MaxSwaps,
            feedbacks |-> MaxFeedbacks, issued |-> MaxIssued, now |-> MaxNow])

Next ==
  \/ \E caller \in Principals, payload \in UserPayloads :
       createUserProfile(caller, payload)
  \/ \E userId \in UserIds, payload \in UserPayloads :
       updateUserProfile(userId, payload)
  \/ \E payload \in BookPayloads : listBook(payload)
  \/ \E bookId \in BookIds \cup {""}, payload \in BookPayloads :
       updateBook(bookId, payload)
  \/ \E bookId \in BookIds : deleteBook(bookId)
  \/ \E payload \in SwapRequestPayloads : createSwapRequest(payload)
  \/ \E swapRequestId \in SwapIds, payload \in SwapRequestPayloads :
       updateSwapRequest(swapRequestId, payload)
  \/ \E swapRequestId \in SwapIds : acceptSwapRequest(swapRequestId)
  \/ \E swapRequestId \in SwapIds : rejectSwapRequest(swapRequestId)
  \/ \E swapRequestId \in SwapIds : deleteSwapRequest(swapRequestId)
  \/ \E payload \in FeedbackPayloads : createFeedback(payload)
  \/ \E caller \in Principals, payload \in FeedbackPayloads :
       updateFeedback(caller, payload)
  \/ \E feedbackId \in FeedbackIds : deleteFeedback(feedbackId)
  \/ \E userId \in UserIds : getUserProfile(userId)
  \/ \E caller \in Principals : getUserProfileByOwner(caller)
  \/ getTotalUsers
  \/ \E bookId \in BookIds : getBook(bookId)
  \/ \E userId \in UserIds : getBooksByUser(userId)
  \/ \E genre \in Genres : getBooksByGenre(genre)
  \/ getAllBooks
  \/ getTotalBooks
  \/ \E searchTerm \in SearchTerms : searchBooks(searchTerm)
  \/ \E userId \in UserIds : getNumberOfBooks(userId)
  \/ \E swapRequestId \in SwapIds : getSwapRequest(swapRequestId)
  \/ \E userId \in UserIds : getSwapsByUser(userId)
  \/ \E userId \in UserIds : getSwapRequestsByUser(userId)
  \/ \E userId \in UserIds : getNumberOfPendingSwapRequests(userId)
  \/ \E userId \in UserIds : getNumberOfCompletedSwapRequests(userId)
  \/ \E userId \in UserIds : getSwapRequestsForUser(userId)
  \/ getAllSwapRequests
  \/ getTotalCompletedSwapRequests
  \/ getRecentBooks
  \/ \E feedbackId \in FeedbackIds : getFeedback(feedbackId)
  \/ \E userId \in UserIds : getFeedbacksByUser(userId)
  \/ getAllFeedbacks
  \/ \E swapRequestId \in SwapIds : getFeedbacksBySwapRequest(swapRequestId)
  \/ getTopSwappers
  \/ getFeaturedSwappers
  \/ Reply
  \/ Tick

Spec == Init /\ [][Next]_vars

----------------------------------------------------------------------------
(* The canister when one user lists books over some time and asks for the  *)
(* recent ones                                                              *)

InitRecent ==
  Deployed([users |-> 1, books |-> RecentBooks, swaps |-> 0, feedbacks |-> 0,
            issued |-> RecentBooks + 1, now |-> RecentNow])

NextRecent ==
  \/ createUserProfile("p1", ValidUserPayload(EmailA))
  \/ listBook(ValidBookPayload("u1"))
  \/ getRecentBooks
  \/ getAllBooks
  \/ Reply
  \/ Tick

SpecRecent == InitRecent /\ [][NextRecent]_vars

----------------------------------------------------------------------------
(* The canister when several users swap one book among themselves and ask  *)
(* for the top and the featured swappers: the users register one after the *)
(* other, and the requests are made in the order of SwapperRequests        *)

SwapperLetters == <<"a", "b", "c", "d", "e", "f">>

SwapperUserPayload(n) ==
  [name |-> <<SwapperLetters[n]>>,
   email |-> <<SwapperLetters[n], "@", "b", ".", "c">>,
   phoneNumber |-> PhoneOk]

SwapperRequests ==
  <<SwapRequestPayloadOf("u1", "u1", "b1"),
    SwapRequestPayloadOf("u2", "u1", "b1"),
    SwapRequestPayloadOf("u3", "u1", "b1"),
    SwapRequestPayloadOf("u4", "u4", "b1"),
    SwapRequestPayloadOf("u5", "u5", "b1"),
    SwapRequestPayloadOf("u6", "u6", "b1"),
    SwapRequestPayloadOf("u2", "u2", "b1")>>

InitSwappers ==
  Deployed([users |-> SwapperUsers, books |-> 1, swaps |-> SwapperSwaps,
            feedbacks |-> 0, issued |-> SwapperUsers + SwapperSwaps + 1,
            now |-> 1])

NextSwappers ==
  \/ \E n \in 1..Len(SwapperLetters) :
       /\ n = Cardinality(DOMAIN usersStorage) + 1
       /\ createUserProfile("p1", SwapperUserPayload(n))
  \/ listBook(ValidBookPayload("u1"))
  \/ \E k \in 1..Len(SwapperRequests) :
       /\ k = Cardinality(issued \cap IdsOf("s", limits.swaps)) + 1
       /\ createSwapRequest(SwapperRequests[k])
  \/ \E swapRequestId \in IdsOf("s", SwapperSwaps) :
       acceptSwapRequest(swapRequestId)
  \/ updateSwapRequest("s1", SwapRequestPayloadOf("", "u1", "b1"))
  \/ getTopSwappers
  \/ getFeaturedSwappers
  \/ Reply
  \/ Tick

SpecSwappers == InitSwappers /\ [][NextSwappers]_vars

----------------------------------------------------------------------------
(* The canister with the book list of the first user open in a browser,     *)
(* while the canister is also called from elsewhere: two users register,    *)
(* the first lists a book and the second asks for it                        *)

InitFrontend ==
  Deployed([users |-> 2, books |-> 1, swaps |-> 1, feedbacks |-> 0,
            issued |-> 4, now |-> 0])

NextFrontend ==
  \/ createUserProfile("p1", ValidUserPayload(EmailA))
  \/ createUserProfile("p2", ValidUserPayload(EmailD))
  \/ listBook(ValidBookPayload("u1"))
  \/ createSwapRequest(SwapRequestPayloadOf("u1", "u2", "b1"))
  \/ acceptSwapRequest("s1")
  \/ rejectSwapRequest("s1")
  \/ fetchUserSwapRequests
  \/ \E i \in 1..Len(userSwapRequests) : handleManageSwap(userSwapRequests[i])
  \/ handleAcceptSwap
  \/ handleRejectSwap
  \/ Reply

SpecFrontend == InitFrontend /\ [][NextFrontend]_vars

----------------------------------------------------------------------------
(* Properties *)

\* a payload that passes every check of the user operations but uniqueness
OtherwiseValid(payload) ==
  /\ payload.name # Empty
  /\ isValidEmail(payload.email)
  /\ isValidPhoneNumber(payload.phoneNumber)

\* C1: no two distinct stored users have the same email.
C1_EmailUnique ==
  \A a \in DOMAIN usersStorage, b \in DOMAIN usersStorage :
    a # b => usersStorage[a].email # usersStorage[b].email

\* C1 witness: two users are stored and an update has just changed an email
C1_Witness ==
  /\ Cardinality(DOMAIN usersStorage) = 2
  /\ call.op = "updateUserProfile"
  /\ ret.tag = "Ok"
  /\ \E u \in DOMAIN usersStorage : usersStorage[u].email = EmailD

\* C2: createUserProfile with an otherwise valid payload whose email is a stored
\* user's, and updateUserProfile whose email is that of a stored user other
\* than userId, return InvalidPayload and leave the four maps unchanged;
\* updateUserProfile of a stored user with an otherwise valid payload carrying
\* the user's own current email succeeds.
C2_CollidingEmailRejected ==
  [][/\ ( /\ call'.op = "createUserProfile"
          /\ OtherwiseValid(call'.payload)
          /\ \E u \in DOMAIN usersStorage :
               usersStorage[u].email = call'.payload.email )
        => (ret'.tag = "InvalidPayload" /\ UNCHANGED maps)
     /\ ( /\ call'.op = "updateUserProfile"
          /\ \E u \in DOMAIN usersStorage :
               u # call'.userId /\ usersStorage[u].email = call'.payload.email )
        => (ret'.tag = "InvalidPayload" /\ UNCHANGED maps)
     /\ ( /\ call'.op = "updateUserProfile"
          /\ call'.userId \in DOMAIN usersStorage
          /\ OtherwiseValid(call'.payload)
          /\ usersStorage[call'.userId].email = call'.payload.email )
        => ret'.tag = "Ok"
    ]_vars

\* C2 witness: an update was rejected because another user holds the email
C2_Witness ==
  /\ call.op = "updateUserProfile"
  /\ call.userId \in DOMAIN usersStorage
  /\ ret = Err("InvalidPayload", "Email already exists: Ensure the email is unique.")
  /\ \E u \in DOMAIN usersStorage :
       u # call.userId /\ usersStorage[u].email = call.payload.email

\* the (ownerId, requesterId, bookId) of a request or of a payload
Triple(r) == <<r.ownerId, r.requesterId, r.bookId>>

Statuses == {"Pending", "Completed", "Rejected"}

\* C3: createSwapRequest whose triple is that of a stored request, whatever the
\* request's status, returns InvalidPayload and inserts nothing.
C3_DuplicateTripleRejected ==
  [][( /\ call'.op = "createSwapRequest"
       /\ \E id \in DOMAIN swapRequestsStorage :
            Triple(swapRequestsStorage[id]) = Triple(call'.payload) )
     => (ret'.tag = "InvalidPayload" /\ UNCHANGED maps)
    ]_vars

\* C4: no two distinct stored swap requests have the same triple.
C4_TripleUnique ==
  \A a \in DOMAIN swapRequestsStorage, b \in DOMAIN swapRequestsStorage :
    a # b => Triple(swapRequestsStorage[a]) # Triple(swapRequestsStorage[b])

\* C5: the status of a stored request changes only from Pending to Completed
\* or from Pending to Rejected; Completed and Rejected are terminal.
C5_TerminalStatus ==
  [][\A id \in DOMAIN swapRequestsStorage \cap DOMAIN swapRequestsStorage' :
       swapRequestsStorage'[id].status # swapRequestsStorage[id].status
       => /\ swapRequestsStorage[id].status = "Pending"
          /\ swapRequestsStorage'[id].status \in {"Completed", "Rejected"}
    ]_vars

\* C6: acceptSwapRequest (rejectSwapRequest) of a stored request stores it with
\* status Completed (Rejected) and with its swapRequestId, ownerId, requesterId,
\* bookId and createdAt unchanged, and returns the stored record.
C6_AcceptRejectEffect ==
  [][\A id \in DOMAIN swapRequestsStorage :
       ( /\ call'.op \in {"acceptSwapRequest", "rejectSwapRequest"}
         /\ call'.swapRequestId = id )
       => /\ id \in DOMAIN swapRequestsStorage'
          /\ swapRequestsStorage'[id].status =
               (IF call'.op = "acceptSwapRequest" THEN "Completed" ELSE "Rejected")
          /\ swapRequestsStorage'[id].swapRequestId = swapRequestsStorage[id].swapRequestId
          /\ swapRequestsStorage'[id].ownerId = swapRequestsStorage[id].ownerId
          /\ swapRequestsStorage'[id].requesterId = swapRequestsStorage[id].requesterId
          /\ swapRequestsStorage'[id].bookId = swapRequestsStorage[id].bookId
          /\ swapRequestsStorage'[id].createdAt = swapRequestsStorage[id].createdAt
          /\ ret' = Ok(swapRequestsStorage'[id])
    ]_vars

\* C6 witness: a request created in an earlier month has been accepted
C6_Witness ==
  /\ call.op = "acceptSwapRequest"
  /\ ret.tag = "Ok"
  /\ swapRequestsStorage[call.swapRequestId].status = "Completed"
  /\ swapRequestsStorage[call.swapRequestId].createdAt # toISOString(now)

\* C7: acceptSwapRequest and rejectSwapRequest change nothing but the addressed
\* request: the users, books and feedback maps and every other swap request
\* are unchanged.
C7_AcceptRejectFrame ==
  [][call'.op \in {"acceptSwapRequest", "rejectSwapRequest"}
     => /\ UNCHANGED <<usersStorage, booksStorage, feedbackStorage>>
        /\ DOMAIN swapRequestsStorage' = DOMAIN swapRequestsStorage
        /\ \A id \in DOMAIN swapRequestsStorage :
             id # call'.swapRequestId
             => swapRequestsStorage'[id] = swapRequestsStorage[id]
    ]_vars

\* C7 witness: a request was rejected while another pending request for the
\* same book is stored
C7_Witness ==
  /\ call.op = "rejectSwapRequest"
  /\ ret.tag = "Ok"
  /\ \E id \in DOMAIN swapRequestsStorage :
       /\ id # call.swapRequestId
       /\ swapRequestsStorage[id].bookId = ret.val.bookId
       /\ swapRequestsStorage[id].status = "Pending"

\* C8: acceptSwapRequest, rejectSwapRequest, deleteSwapRequest, deleteBook and
\* deleteFeedback with an id that is no key of their map return NotFound and
\* leave the four maps unchanged.
C8_UnknownIdNotFound ==
  [][( \/ /\ call'.op \in {"acceptSwapRequest", "rejectSwapRequest", "deleteSwapRequest"}
          /\ call'.swapRequestId \notin DOMAIN swapRequestsStorage
       \/ /\ call'.op = "deleteBook"
          /\ call'.bookId \notin DOMAIN booksStorage
       \/ /\ call'.op = "deleteFeedback"
          /\ call'.feedbackId \notin DOMAIN feedbackStorage )
     => (ret'.tag = "NotFound" /\ UNCHANGED maps)
    ]_vars

\* C8 witness: a feedback is deleted a second time
C8_Witness ==
  /\ call.op = "deleteFeedback"
  /\ call.feedbackId \in issued
  /\ ret.tag = "NotFound"

\* C9: every stored swap request's ownerId and requesterId are keys of the
\* users map and its bookId is a key of the books map.
C9_ReferencesExist ==
  \A id \in DOMAIN swapRequestsStorage :
    /\ swapRequestsStorage[id].ownerId \in DOMAIN usersStorage
    /\ swapRequestsStorage[id].requesterId \in DOMAIN usersStorage
    /\ swapRequestsStorage[id].bookId \in DOMAIN booksStorage

\* C10: every stored swap request has a status among Pending, Completed and
\* Rejected, and the request a successful createSwapRequest returns is stored
\* with status Pending.
C10_StatusDomain ==
  /\ \A id \in DOMAIN swapRequestsStorage :
       swapRequestsStorage[id].status \in Statuses
  /\ (call.op = "createSwapRequest" /\ ret.tag = "Ok")
     => /\ ret.val.swapRequestId \in DOMAIN swapRequestsStorage
        /\ swapRequestsStorage[ret.val.swapRequestId] = ret.val
        /\ ret.val.status = "Pending"

\* C10 witness: a request has been created while another one is Rejected
C10_Witness ==
  /\ call.op = "createSwapRequest"
  /\ ret.tag = "Ok"
  /\ \E id \in DOMAIN swapRequestsStorage :
       swapRequestsStorage[id].status = "Rejected"

\* the tags of the Message variant that report a failure
Failures == {"InvalidPayload", "NotFound", "Error"}

\* C11: a call that returns a failure (InvalidPayload, NotFound or Error)
\* leaves the users, books, swap-request and feedback maps as they were
C11_FailureWritesNothing ==
  [][ret'.tag \in Failures => UNCHANGED maps]_vars

\* createFeedback has failed on the swap request, with a user stored
C11_Witness ==
  /\ call.op = "createFeedback"
  /\ ret.tag = "NotFound"
  /\ call.payload.userId \in DOMAIN usersStorage

\* the keys under which two versions of a map differ
Changed(before, after) ==
  {k \in DOMAIN before \cup DOMAIN after :
     \/ k \notin DOMAIN before
     \/ k \notin DOMAIN after
     \/ before[k] # after[k]}

\* the query methods of the canister
QueryOps ==
  {"getUserProfile", "getUserProfileByOwner", "getTotalUsers", "getBook",
   "getBooksByUser", "getBooksByGenre", "getAllBooks", "getTotalBooks",
   "searchBooks", "getNumberOfBooks", "getSwapRequest", "getSwapsByUser",
   "getSwapRequestsByUser", "getNumberOfPendingSwapRequests",
   "getNumberOfCompletedSwapRequests", "getSwapRequestsForUser",
   "getAllSwapRequests", "getTotalCompletedSwapRequests", "getRecentBooks",
   "getFeedback", "getFeedbacksByUser", "getAllFeedbacks",
   "getFeedbacksBySwapRequest", "getTopSwappers", "getFeaturedSwappers"}

\* C12: a call changes at most one key of at most one of the four maps, and
\* a query changes none
C12_AtMostOneKey ==
  [][/\ Cardinality(Changed(usersStorage, usersStorage'))
        + Cardinality(Changed(booksStorage, booksStorage'))
        + Cardinality(Changed(swapRequestsStorage, swapRequestsStorage'))
        + Cardinality(Changed(feedbackStorage, feedbackStorage')) <= 1
     /\ call'.op \in QueryOps => UNCHANGED maps]_vars

\* deleteBook has removed a book that a stored swap request names
C12_Witness ==
  /\ call.op = "deleteBook"
  /\ ret.tag = "Ok"
  /\ \E k \in DOMAIN swapRequestsStorage :
       swapRequestsStorage[k].bookId = call.bookId

\* the fields of a record that its payload supplies
PayloadFields(record, payload) ==
  \A field \in DOMAIN payload : record[field] = payload[field]

\* C13: when createUserProfile, listBook, createSwapRequest or createFeedback
\* returns Ok(e), the get-by-id of e's identifier in the state the call
\* leaves returns Ok(e), and e carries the fields of the submitted payload;
\* each get-by-id returns what is stored under the identifier
C13_RoundTrip ==
  [][/\ \A userId \in UserIds :
          (call'.op = "createUserProfile" /\ ret'.tag = "Ok"
             /\ ret'.val.userId = userId)
          => /\ getUserProfileResult(userId)' = Ok(ret'.val)
             /\ PayloadFields(ret'.val, call'.payload)
     /\ \A bookId \in BookIds :
          (call'.op = "listBook" /\ ret'.tag = "Ok" /\ ret'.val.bookId = bookId)
          => /\ getBookResult(bookId)' = Ok(ret'.val)
             /\ PayloadFields(ret'.val, call'.payload)
     /\ \A swapRequestId \in SwapIds :
          (call'.op = "createSwapRequest" /\ ret'.tag = "Ok"
             /\ ret'.val.swapRequestId = swapRequestId)
          => /\ getSwapRequestResult(swapRequestId)' = Ok(ret'.val)
             /\ PayloadFields(ret'.val, call'.payload)
     /\ \A feedbackId \in FeedbackIds :
          (call'.op = "createFeedback" /\ ret'.tag = "Ok"
             /\ ret'.val.feedbackId = feedbackId)
          => /\ getFeedbackResult(feedbackId)' = Ok(ret'.val)
             /\ PayloadFields(ret'.val, call'.payload)
     /\ call'.op = "getUserProfile" /\ call'.userId \in DOMAIN usersStorage
          => ret' = Ok(usersStorage[call'.userId])
     /\ call'.op = "getBook" /\ call'.bookId \in DOMAIN booksStorage
          => ret' = Ok(booksStorage[call'.bookId])
     /\ call'.op = "getSwapRequest"
          /\ call'.swapRequestId \in DOMAIN swapRequestsStorage
          => ret' = Ok(swapRequestsStorage[call'.swapRequestId])
     /\ call'.op = "getFeedback" /\ call'.feedbackId \in DOMAIN feedbackStorage
          => ret' = Ok(feedbackStorage[call'.feedbackId])]_vars

\* getSwapRequest has returned a stored request of two different users
C13_Witness ==
  /\ call.op = "getSwapRequest"
  /\ ret.tag = "Ok"
  /\ ret.val.ownerId # ret.val.requesterId
  /\ ret.val.status = "Pending"

\* C14: from a successful deleteBook, deleteSwapRequest or deleteFeedback of
\* an identifier on, the get-by-id of that identifier returns NotFound in
\* every later state: an identifier that was issued and is no longer a key
\* is not a key in the next state either
C14_DeletedStaysDeleted ==
  [][/\ \A bookId \in BookIds :
          \/ call'.op = "deleteBook" /\ ret'.tag = "Ok" /\ call'.bookId = bookId
          \/ bookId \in issued /\ bookId \notin DOMAIN booksStorage
          => getBookResult(bookId)'.tag = "NotFound"
     /\ \A swapRequestId \in SwapIds :
          \/ /\ call'.op = "deleteSwapRequest" /\ ret'.tag = "Ok"
             /\ call'.swapRequestId = swapRequestId
          \/ /\ swapRequestId \in issued
             /\ swapRequestId \notin DOMAIN swapRequestsStorage
          => getSwapRequestResult(swapRequestId)'.tag = "NotFound"
     /\ \A feedbackId \in FeedbackIds :
          \/ /\ call'.op = "deleteFeedback" /\ ret'.tag = "Ok"
             /\ call'.feedbackId = feedbackId
          \/ feedbackId \in issued /\ feedbackId \notin DOMAIN feedbackStorage
          => getFeedbackResult(feedbackId)'.tag = "NotFound"
     /\ call'.op = "getBook" /\ call'.bookId \notin DOMAIN booksStorage
          => ret'.tag = "NotFound"
     /\ call'.op = "getSwapRequest"
          /\ call'.swapRequestId \notin DOMAIN swapRequestsStorage
          => ret'.tag = "NotFound"
     /\ call'.op = "getFeedback" /\ call'.feedbackId \notin DOMAIN feedbackStorage
          => ret'.tag = "NotFound"]_vars

\* getBook has been asked for a deleted book while another book is stored
C14_Witness ==
  /\ call.op = "getBook"
  /\ call.bookId \in issued
  /\ ret.tag = "NotFound"
  /\ booksStorage # EmptyMap

\* C15: User and Book records are permanent: an identifier that is a key of
\* the users map or of the books map is a key of it in every later state
C15_UsersAndBooksPermanent ==
  [][/\ \A userId \in DOMAIN usersStorage : userId \in DOMAIN usersStorage'
     /\ \A bookId \in DOMAIN booksStorage : bookId \in DOMAIN booksStorage']_vars

\* C15, amended: a User's identifier stays a key of the users map for ever;
\* a Book's identifier stays a key of the books map until a successful
\* deleteBook of that identifier, the only call that removes a Book
C15_UsersPermanentBooksUntilDeleted ==
  [][/\ \A userId \in DOMAIN usersStorage : userId \in DOMAIN usersStorage'
     /\ \A bookId \in DOMAIN booksStorage :
          bookId \notin DOMAIN booksStorage'
          => /\ call'.op = "deleteBook"
             /\ call'.bookId = bookId
             /\ ret'.tag = "Ok"]_vars

\* deleteBook has removed a book, its user and a request for it still stored
C15_Witness ==
  /\ call.op = "deleteBook"
  /\ ret.tag = "Ok"
  /\ call.bookId \notin DOMAIN booksStorage
  /\ usersStorage # EmptyMap
  /\ swapRequestsStorage # EmptyMap

\* C16: the owner, the userId and the createdAt of a stored user are those it
\* was created with, whichever calls follow: the owner of a created user is
\* the caller of createUserProfile, and no step changes the three fields of
\* a stored user
C16_UserIdentityFixed ==
  [][/\ call'.op = "createUserProfile" /\ ret'.tag = "Ok"
          => /\ ret'.val.owner = call'.caller
             /\ ret'.val.createdAt = toISOString(now)
             /\ ret'.val.userId \notin DOMAIN usersStorage
     /\ \A userId \in DOMAIN usersStorage :
          /\ userId \in DOMAIN usersStorage'
          /\ usersStorage'[userId].owner = usersStorage[userId].owner
          /\ usersStorage'[userId].userId = usersStorage[userId].userId
          /\ usersStorage'[userId].createdAt = usersStorage[userId].createdAt]_vars

\* updateUserProfile has changed the email of a user created a while ago
C16_Witness ==
  /\ call.op = "updateUserProfile"
  /\ ret.tag = "Ok"
  /\ ret.val.createdAt # toISOString(now)
  /\ ret.val.email = EmailD

\* every key of the four maps is the identifier its record carries
KeyIsId ==
  /\ \A k \in DOMAIN usersStorage : usersStorage[k].userId = k
  /\ \A k \in DOMAIN booksStorage : booksStorage[k].bookId = k
  /\ \A k \in DOMAIN swapRequestsStorage : swapRequestsStorage[k].swapRequestId = k
  /\ \A k \in DOMAIN feedbackStorage : feedbackStorage[k].feedbackId = k

\* C17: each key of a map is the identifier of the record stored under it,
\* and a successful updateUserProfile, updateBook or updateSwapRequest leaves
\* the record's identifier and createdAt (updateSwapRequest its status too)
\* as they were
C17_IdentifiersFixed ==
  [][/\ KeyIsId'
     /\ call'.op = "updateUserProfile" /\ ret'.tag = "Ok"
          => /\ ret'.val = usersStorage'[call'.userId]
             /\ ret'.val.userId = usersStorage[call'.userId].userId
             /\ ret'.val.createdAt = usersStorage[call'.userId].createdAt
     /\ call'.op = "updateBook" /\ ret'.tag = "Ok"
          => /\ ret'.val = booksStorage'[call'.bookId]
             /\ ret'.val.bookId = booksStorage[call'.bookId].bookId
             /\ ret'.val.createdAt = booksStorage[call'.bookId].createdAt
     /\ call'.op = "updateSwapRequest" /\ ret'.tag = "Ok"
          => /\ ret'.val = swapRequestsStorage'[call'.swapRequestId]
             /\ ret'.val.swapRequestId
                  = swapRequestsStorage[call'.swapRequestId].swapRequestId
             /\ ret'.val.createdAt
                  = swapRequestsStorage[call'.swapRequestId].createdAt
             /\ ret'.val.status
                  = swapRequestsStorage[call'.swapRequestId].status]_vars

\* updateSwapRequest has rewritten a completed request some time after its
\* creation
C17_Witness ==
  /\ call.op = "updateSwapRequest"
  /\ ret.tag = "Ok"
  /\ ret.val.status = "Completed"
  /\ ret.val.createdAt # toISOString(now)

\* payloads in which some field is empty
UserPayloadHasEmpty(payload) ==
  payload.name = Empty \/ payload.email = Empty \/ payload.phoneNumber = Empty

BookPayloadHasEmpty(payload) ==
  \/ payload.userId = ""
  \/ payload.title = Empty
  \/ payload.author = Empty
  \/ payload.genre = Empty
  \/ payload.description = Empty
  \/ payload.imageUrl = Empty

SwapRequestPayloadHasEmpty(payload) ==
  payload.ownerId = "" \/ payload.requesterId = "" \/ payload.bookId = ""

FeedbackPayloadHasEmpty(payload) ==
  \/ payload.userId = ""
  \/ payload.swapRequestId = ""
  \/ payload.rating = 0
  \/ payload.comment = Empty

\* C18: every create and update call rejects a payload in which some field
\* is empty with InvalidPayload and writes nothing, and so no stored book
\* has an empty title, author, genre, description or imageUrl
C18_EmptyFieldRejected ==
  [][/\ \/ /\ call'.op \in {"createUserProfile", "updateUserProfile"}
             /\ UserPayloadHasEmpty(call'.payload)
          \/ /\ call'.op \in {"listBook", "updateBook"}
             /\ BookPayloadHasEmpty(call'.payload)
          \/ /\ call'.op \in {"createSwapRequest", "updateSwapRequest"}
             /\ SwapRequestPayloadHasEmpty(call'.payload)
          \/ /\ call'.op \in {"createFeedback", "updateFeedback"}
             /\ FeedbackPayloadHasEmpty(call'.payload)
          => ret'.tag = "InvalidPayload" /\ UNCHANGED maps
     /\ \A bookId \in DOMAIN booksStorage' :
          /\ booksStorage'[bookId].title # Empty
          /\ booksStorage'[bookId].author # Empty
          /\ booksStorage'[bookId].genre # Empty
          /\ booksStorage'[bookId].description # Empty
          /\ booksStorage'[bookId].imageUrl # Empty]_vars

\* a text without white space and without "@"
Plain(text) == \A k \in 1..Len(text) : text[k] \notin WhiteSpace \cup {"@"}

\* local@domain.tld, the three parts non-empty and plain
EmailShape(email) ==
  \E a \in 1..Len(email), b \in 1..Len(email) :
    /\ a < b
    /\ email[a] = "@"
    /\ email[b] = "."
    /\ LET local == SubSeq(email, 1, a - 1)
           domain == SubSeq(email, a + 1, b - 1)
           tld == SubSeq(email, b + 1, Len(email))
       IN /\ local # Empty /\ domain # Empty /\ tld # Empty
          /\ Plain(local) /\ Plain(domain) /\ Plain(tld)

\* exactly ten decimal digits
TenDigits(phoneNumber) ==
  /\ Len(phoneNumber) = 10
  /\ \A k \in 1..10 : phoneNumber[k] \in {"0", "1", "2", "3", "4", "5", "6", "7", "8", "9"}

WellFormedUser(user) ==
  user.name # Empty /\ EmailShape(user.email) /\ TenDigits(user.phoneNumber)

\* C19: every stored user has a non-empty name, an email of the shape
\* local@domain.tld and a phone number of exactly ten digits, and
\* createUserProfile and updateUserProfile answer a payload that is not so
\* with InvalidPayload
C19_StoredUsersValid ==
  /\ \A userId \in DOMAIN usersStorage : WellFormedUser(usersStorage[userId])
  /\ call.op \in {"createUserProfile", "updateUserProfile"}
       /\ ~WellFormedUser(call.payload)
       => ret.tag = "InvalidPayload"

\* updateUserProfile has refused a three-digit phone number for a stored user
C19_Witness ==
  /\ call.op = "updateUserProfile"
  /\ call.userId \in DOMAIN usersStorage
  /\ call.payload.phoneNumber = PhoneShort
  /\ ret.tag = "InvalidPayload"

\* C20: the userId of every stored feedback is a key of the users map and
\* its swapRequestId a key of the swap-request map
C20_FeedbackReferencesExist ==
  \A feedbackId \in DOMAIN feedbackStorage :
    /\ feedbackStorage[feedbackId].userId \in DOMAIN usersStorage
    /\ feedbackStorage[feedbackId].swapRequestId \in DOMAIN swapRequestsStorage

\* C21: every stored feedback has a rating of at least 1 and a non-empty
\* comment, and createFeedback and updateFeedback answer a payload whose
\* rating is 0 or whose comment is empty with InvalidPayload, writing nothing
C21_FeedbackComplete ==
  [][/\ \A feedbackId \in DOMAIN feedbackStorage' :
          /\ feedbackStorage'[feedbackId].rating >= 1
          /\ feedbackStorage'[feedbackId].comment # Empty
     /\ call'.op \in {"createFeedback", "updateFeedback"}
          /\ (call'.payload.rating = 0 \/ call'.payload.comment = Empty)
          => ret'.tag = "InvalidPayload" /\ UNCHANGED maps]_vars

\* createFeedback has refused an empty comment on a stored swap request
C21_Witness ==
  /\ call.op = "createFeedback"
  /\ call.payload.comment = Empty
  /\ call.payload.userId \in DOMAIN usersStorage
  /\ call.payload.swapRequestId \in DOMAIN swapRequestsStorage
  /\ ret.tag = "InvalidPayload"

\* two characters that are the same letter, whatever their case
SameLetter(c, d) ==
  \/ c = d
  \/ \E n \in 1..Len(UpperCase) : {c, d} = {UpperCase[n], LowerCase[n]}

\* term occurs in text as a substring, case ignored
ContainsIgnoringCase(text, term) ==
  \E i \in 0..(Len(text) - Len(term)) :
    \A k \in 1..Len(term) : SameLetter(text[i + k], term[k])

\* the stored books that a search term matches
Matching(term) ==
  {book \in values(booksStorage) :
     \/ ContainsIgnoringCase(book.title, term)
     \/ ContainsIgnoringCase(book.author, term)
     \/ ContainsIgnoringCase(book.genre, term)}

\* the elements of an array
Elements(array) == {array[i] : i \in 1..Len(array)}

\* C22: searchBooks(term) returns NotFound exactly when no stored book has
\* the term, case ignored, as a substring of its title, author or genre, and
\* otherwise Ok of exactly those books, each once
C22_SearchBooks ==
  call.op = "searchBooks"
  => IF Matching(call.searchTerm) = {}
     THEN ret.tag = "NotFound"
     ELSE /\ ret.tag = "Ok"
          /\ Elements(ret.val) = Matching(call.searchTerm)
          /\ Len(ret.val) = Cardinality(Matching(call.searchTerm))

\* searchBooks has found some of the stored books by a term in the other case
C22_Witness ==
  /\ call.op = "searchBooks"
  /\ call.searchTerm = <<"t">>
  /\ ret.tag = "Ok"
  /\ Len(ret.val) < Cardinality(DOMAIN booksStorage)

\* C23: getAllBooks returns NotFound exactly when the books map is empty and
\* otherwise Ok of exactly the stored books, each once; when listBook has
\* stored the only book, that book is the one it returned
C23_GetAllBooks ==
  /\ call.op = "getAllBooks"
       => IF DOMAIN booksStorage = {}
          THEN ret.tag = "NotFound"
          ELSE /\ ret.tag = "Ok"
               /\ Elements(ret.val) = values(booksStorage)
               /\ Len(ret.val) = Cardinality(DOMAIN booksStorage)
  /\ call.op = "listBook" /\ ret.tag = "Ok"
       /\ Cardinality(DOMAIN booksStorage) = 1
       => values(booksStorage) = {ret.val}

\* getAllBooks has returned two books
C23_Witness ==
  /\ call.op = "getAllBooks"
  /\ ret.tag = "Ok"
  /\ Len(ret.val) = 2

\* the keys of the requests of a status that name a user as owner or requester
RequestsOf(userId, statuses) ==
  {k \in DOMAIN swapRequestsStorage :
     /\ \/ swapRequestsStorage[k].ownerId = userId
        \/ swapRequestsStorage[k].requesterId = userId
     /\ swapRequestsStorage[k].status \in statuses}

\* C24: the per-user counters succeed for every userId, stored or not:
\* getNumberOfBooks counts the books of the user, getSwapsByUser the requests
\* that name the user as owner or requester, getNumberOfPendingSwapRequests
\* and getNumberOfCompletedSwapRequests those of them that are Pending and
\* Completed; so pending + completed <= getSwapsByUser
C24_Counters ==
  /\ call.op = "getNumberOfBooks"
       => ret = Ok(Cardinality({k \in DOMAIN booksStorage :
                                 booksStorage[k].userId = call.userId}))
  /\ call.op = "getSwapsByUser"
       => ret = Ok(Cardinality(RequestsOf(call.userId, Statuses)))
  /\ call.op = "getNumberOfPendingSwapRequests"
       => ret = Ok(Cardinality(RequestsOf(call.userId, {"Pending"})))
  /\ call.op = "getNumberOfCompletedSwapRequests"
       => ret = Ok(Cardinality(RequestsOf(call.userId, {"Completed"})))
  /\ \A userId \in UserIds :
       Cardinality(RequestsOf(userId, {"Pending"}))
         + Cardinality(RequestsOf(userId, {"Completed"}))
         <= Cardinality(RequestsOf(userId, Statuses))

\* getSwapsByUser has counted a request for a requester that is no stored user
C24_Witness ==
  /\ call.op = "getSwapsByUser"
  /\ call.userId \notin DOMAIN usersStorage
  /\ ret = Ok(1)

\* the instant of the first ISO text is before that of the second
Earlier(a, b) ==
  \/ a.year < b.year
  \/ a.year = b.year /\ a.month < b.month
  \/ a.year = b.year /\ a.month = b.month /\ a.rest < b.rest

\* C25: getRecentBooks returns NotFound exactly when the books map is empty;
\* otherwise Ok of min(10, number of books) different stored books, none
\* created before the book that follows it, and no stored book left out was
\* created after a returned one
C25_RecentBooks ==
  call.op = "getRecentBooks"
  => IF DOMAIN booksStorage = {}
     THEN ret.tag = "NotFound"
     ELSE /\ ret.tag = "Ok"
          /\ Len(ret.val) = IF Cardinality(DOMAIN booksStorage) < 10
                            THEN Cardinality(DOMAIN booksStorage) ELSE 10
          /\ Elements(ret.val) \subseteq values(booksStorage)
          /\ Cardinality(Elements(ret.val)) = Len(ret.val)
          /\ \A i \in 1..Len(ret.val), j \in 1..Len(ret.val) :
               i < j => ~Earlier(ret.val[i].createdAt, ret.val[j].createdAt)
          /\ \A omitted \in values(booksStorage) \ Elements(ret.val) :
               \A returned \in Elements(ret.val) :
                 ~Earlier(returned.createdAt, omitted.createdAt)

\* getRecentBooks has returned ten of eleven books, listed at three instants
C25_Witness ==
  /\ call.op = "getRecentBooks"
  /\ ret.tag = "Ok"
  /\ Len(ret.val) = 10
  /\ Cardinality(DOMAIN booksStorage) = 11
  /\ Cardinality({book.createdAt : book \in values(booksStorage)}) = 3
  /\ Earlier(ret.val[10].createdAt, ret.val[1].createdAt)

\* the keys of the requests that are Completed and were created in the
\* month and year of now
CompletedNow ==
  {k \in DOMAIN swapRequestsStorage :
     /\ swapRequestsStorage[k].status = "Completed"
     /\ swapRequestsStorage[k].createdAt.year = toISOString(now).year
     /\ swapRequestsStorage[k].createdAt.month = toISOString(now).month}

\* C26: the entries getFeaturedSwappers returns are in non-increasing order
\* of booksSwapped, and it returns NotFound when no stored request is
\* Completed with a createdAt in the current month and year
C26_FeaturedOrder ==
  call.op = "getFeaturedSwappers"
  => /\ ret.tag = "Ok"
          => \A i \in 1..Len(ret.val), j \in 1..Len(ret.val) :
               i < j => ret.val[i].booksSwapped >= ret.val[j].booksSwapped
     /\ CompletedNow = {} => ret.tag = "NotFound"

\* getFeaturedSwappers has put a user of two swaps before a user of one who
\* comes first in the requests
C26_Witness ==
  /\ call.op = "getFeaturedSwappers"
  /\ ret.tag = "Ok"
  /\ Len(ret.val) >= 2
  /\ ret.val[1].booksSwapped > ret.val[2].booksSwapped
  /\ \E k \in CompletedNow :
       /\ ret.val[2].userId \in {swapRequestsStorage[k].ownerId,
                                 swapRequestsStorage[k].requesterId}
       /\ \A j \in CompletedNow :
            ret.val[1].userId \in {swapRequestsStorage[j].ownerId,
                                   swapRequestsStorage[j].requesterId}
            => k # j /\ swapRequestsStorage[k].createdAt = swapRequestsStorage[j].createdAt

\* C27: every user getFeaturedSwappers returns has booksSwapped equal to the
\* number of the Completed requests of the current month whose ownerId is the
\* user plus the number of those whose requesterId is the user, a request
\* whose ownerId and requesterId are the same user counting twice
C27_FeaturedCounts ==
  call.op = "getFeaturedSwappers" /\ ret.tag = "Ok"
  => \A i \in 1..Len(ret.val) :
       ret.val[i].booksSwapped
         = Cardinality({k \in CompletedNow :
                          swapRequestsStorage[k].ownerId = ret.val[i].userId})
           + Cardinality({k \in CompletedNow :
                            swapRequestsStorage[k].requesterId = ret.val[i].userId})

\* the number of the Completed requests of the current month that count for
\* a user: those he owns (getTopSwappers), or those he owns or has made
\* (getFeaturedSwappers)
Counted(op, userId) ==
  Cardinality({k \in CompletedNow :
                 \/ swapRequestsStorage[k].ownerId = userId
                 \/ /\ op = "getFeaturedSwappers"
                    /\ swapRequestsStorage[k].requesterId = userId})

Min(a, b) == IF a < b THEN a ELSE b

\* the entries a call has returned, none when it has failed
Returned == IF ret.tag = "Ok" THEN ret.val ELSE << >>

\* what C28 says of the result of one of the two operations
TopFive(op) ==
  LET existing == {userId \in DOMAIN usersStorage : Counted(op, userId) >= 1}
      returned == {Returned[i].userId : i \in 1..Len(Returned)}
  IN /\ Len(Returned) = Min(5, Cardinality(existing))
     /\ \A omitted \in existing \ returned, userId \in returned :
          Counted(op, omitted) <= Counted(op, userId)

\* C28: when k existing users have at least one counted Completed request
\* of the current month, getTopSwappers and getFeaturedSwappers each return
\* exactly min(5, k) entries, and no omitted existing user has a strictly
\* higher count than a returned one
C28_TopFive ==
  call.op \in {"getTopSwappers", "getFeaturedSwappers"} => TopFive(call.op)

\* the stored books of a user
BooksOf(userId) == {book \in values(booksStorage) : book.userId = userId}

\* the book attached to an entry of getTopSwappers or getFeaturedSwappers
Attached(op, entry) ==
  IF op = "getTopSwappers" THEN entry.lastBookDetails ELSE entry.bookDetails

\* C29: for every user getTopSwappers or getFeaturedSwappers returns, the
\* attached book is None iff no stored book has that userId, and otherwise
\* it is a stored book of that user whose createdAt is at least the
\* createdAt of every other book of that user
C29_AttachedBook ==
  call.op \in {"getTopSwappers", "getFeaturedSwappers"} /\ ret.tag = "Ok"
  => \A i \in 1..Len(ret.val) :
       LET attached == Attached(call.op, ret.val[i])
           books == BooksOf(ret.val[i].userId)
       IN /\ attached = None <=> books = {}
          /\ attached # None
               => /\ attached.Some \in books
                  /\ \A book \in books :
                       getTime(attached.Some.createdAt) >= getTime(book.createdAt)

\* getTopSwappers has returned a user with the later of his two books
\* attached
C29_Witness ==
  /\ call.op = "getTopSwappers"
  /\ ret.tag = "Ok"
  /\ \E i \in 1..Len(ret.val) :
       /\ ret.val[i].lastBookDetails # None
       /\ \E book \in BooksOf(ret.val[i].userId) :
            getTime(book.createdAt) < getTime(ret.val[i].lastBookDetails.Some.createdAt)

\* the update methods of the canister that are given no caller
CallerlessOps ==
  {"updateUserProfile", "listBook", "updateBook", "deleteBook",
   "createSwapRequest", "updateSwapRequest", "acceptSwapRequest",
   "rejectSwapRequest", "deleteSwapRequest", "createFeedback", "deleteFeedback"}

\* C30: the caller's identity only stamps owner in createUserProfile: every
\* other update call made from the same state with the same arguments by
\* another caller gives the same result and the same successor state
C30_CallerIndependent ==
  [][/\ call'.op \in CallerlessOps => DOMAIN call' \cap {"caller"} = {}
     /\ call'.op = "updateFeedback"
          => \A other \in Principals : updateFeedbackHandler(other, call'.payload)]_vars

\* updateFeedback has answered a complete payload while a feedback is stored
C30_Witness ==
  /\ call.op = "updateFeedback"
  /\ ~missingFeedbackFields(call.payload)
  /\ feedbackStorage # EmptyMap
  /\ ret.tag = "NotFound"

\* the stored users whose owner is a principal
OwnedBy(caller) == {user \in values(usersStorage) : user.owner = caller}

\* C31: getUserProfileByOwner returns NotFound iff no stored user has the
\* caller as owner, and otherwise a user whose owner is the caller; and in
\* every reachable state at most one stored user has a given owner
C31_OwnerLocatesOneUser ==
  /\ call.op = "getUserProfileByOwner"
       => /\ ret.tag = "NotFound" <=> OwnedBy(call.caller) = {}
          /\ ret.tag # "NotFound"
               => ret.tag = "Ok" /\ ret.val \in OwnedBy(call.caller)
  /\ \A caller \in Principals : Cardinality(OwnedBy(caller)) <= 1

\* the stored users with an email, and the stored requests with a triple
UsersWithEmail(email) ==
  {k \in DOMAIN usersStorage : usersStorage[k].email = email}

RequestsWithTriple(payload) ==
  {k \in DOMAIN swapRequestsStorage :
     Triple(swapRequestsStorage[k]) = Triple(payload)}

\* the users and the book a payload names are stored
Referenced(payload) ==
  /\ payload.ownerId \in DOMAIN usersStorage
  /\ payload.requesterId \in DOMAIN usersStorage
  /\ payload.bookId \in DOMAIN booksStorage

\* C32: calls being whole steps, of two createUserProfile calls with the same
\* email, or two createSwapRequest calls with the same triple, made from a
\* state that holds neither, the first returns Ok and stores the one record,
\* and the second, whoever makes it, returns InvalidPayload and stores nothing
C32_SecondCallRefused ==
  [][/\ call'.op = "createUserProfile"
          => /\ ret'.tag = "Ok"
                  => /\ UsersWithEmail(call'.payload.email) = {}
                     /\ Cardinality({k \in DOMAIN usersStorage' :
                            usersStorage'[k].email = call'.payload.email}) = 1
             /\ UsersWithEmail(call'.payload.email) # {}
                  => ret'.tag = "InvalidPayload" /\ UNCHANGED maps
     /\ call'.op = "createSwapRequest"
          => /\ ret'.tag = "Ok"
                  => /\ RequestsWithTriple(call'.payload) = {}
                     /\ Cardinality({k \in DOMAIN swapRequestsStorage' :
                            Triple(swapRequestsStorage'[k]) = Triple(call'.payload)}) = 1
             /\ RequestsWithTriple(call'.payload) # {} /\ Referenced(call'.payload)
                  => ret'.tag = "InvalidPayload" /\ UNCHANGED maps]_vars

\* a second caller's createUserProfile has been refused for the email the
\* first caller's profile holds
C32_Witness ==
  /\ call.op = "createUserProfile"
  /\ ret = Err("InvalidPayload", "Email already exists.")
  /\ \E k \in UsersWithEmail(call.payload.email) :
       usersStorage[k].owner # call.caller

\* C33: the front end's accept handler never calls acceptSwapRequest for a
\* request whose stored status is already Completed, and its reject handler
\* never calls rejectSwapRequest for one whose stored status is already
\* Rejected, also when the request has changed since the copy in
\* selectedSwapRequest was fetched
C33_HandlersGuard ==
  [][\A swapRequestId \in DOMAIN swapRequestsStorage :
       /\ call' = [op |-> "handleAcceptSwap", swapRequestId |-> swapRequestId]
            => swapRequestsStorage[swapRequestId].status # "Completed"
       /\ call' = [op |-> "handleRejectSwap", swapRequestId |-> swapRequestId]
            => swapRequestsStorage[swapRequestId].status # "Rejected"]_vars

\* C34: createSwapRequest reports the first failure of its checks in their
\* order: InvalidPayload for an empty ownerId, requesterId or bookId; else
\* NotFound when ownerId is no user; else NotFound when requesterId is no
\* user; else NotFound when bookId is no book; else InvalidPayload when the
\* triple is stored; else it inserts exactly one new Pending request. It
\* requires neither ownerId # requesterId nor that the book is the owner's
C34_CheckOrder ==
  [][call'.op = "createSwapRequest"
     => LET payload == call'.payload
        IN IF payload.ownerId = "" \/ payload.requesterId = "" \/ payload.bookId = ""
           THEN /\ ret' = Err("InvalidPayload",
                          "Ensure 'ownerId', 'requesterId', and 'bookId' are provided.")
                /\ UNCHANGED maps
           ELSE IF payload.ownerId \notin DOMAIN usersStorage
           THEN ret' = Err("NotFound", "User not found") /\ UNCHANGED maps
           ELSE IF payload.requesterId \notin DOMAIN usersStorage
           THEN ret' = Err("NotFound", "Requester not found") /\ UNCHANGED maps
           ELSE IF payload.bookId \notin DOMAIN booksStorage
           THEN ret' = Err("NotFound", "Book not found") /\ UNCHANGED maps
           ELSE IF RequestsWithTriple(payload) # {}
           THEN /\ ret'.tag = "InvalidPayload"
                /\ UNCHANGED maps
           ELSE /\ ret'.tag = "Ok"
                /\ UNCHANGED <<usersStorage, booksStorage, feedbackStorage>>
                /\ \E swapRequestId \in DOMAIN swapRequestsStorage' \ DOMAIN swapRequestsStorage :
                     /\ DOMAIN swapRequestsStorage'
                          = DOMAIN swapRequestsStorage \cup {swapRequestId}
                     /\ swapRequestsStorage'[swapRequestId].status = "Pending"
                     /\ Triple(swapRequestsStorage'[swapRequestId]) = Triple(payload)
                     /\ \A k \in DOMAIN swapRequestsStorage :
                          swapRequestsStorage'[k] = swapRequestsStorage[k]]_vars

\* createSwapRequest has stored a request a user makes to himself for a book
\* that is another user's
C34_Witness ==
  /\ call.op = "createSwapRequest"
  /\ ret.tag = "Ok"
  /\ call.payload.ownerId = call.payload.requesterId
  /\ booksStorage[call.payload.bookId].userId # call.payload.ownerId
  /\ ret.val.swapRequestId \in DOMAIN swapRequestsStorage

\* the stored users who have made a Completed request of the current month
\* and own none
RequestersOnly ==
  {userId \in DOMAIN usersStorage :
     /\ Counted("getTopSwappers", userId) = 0
     /\ Counted("getFeaturedSwappers", userId) > 0}

C37_BookOwnerExists ==
  \A bookId \in DOMAIN booksStorage :
    booksStorage[bookId].userId \in DOMAIN usersStorage

\* C38: the duplicate check of createSwapRequest sees only the requests that
\* are stored: a successful deleteSwapRequest of the only request for a
\* triple, whatever its status, leaves no request for the triple and the
\* users and books as they were, and createSwapRequest for a triple that is
\* not stored, with existing users and book, stores a new Pending request
\* under an identifier never issued before
C38_CreateAfterDelete ==
  [][/\ ( /\ call'.op = "deleteSwapRequest"
          /\ ret'.tag = "Ok" )
        => /\ call'.swapRequestId \in DOMAIN swapRequestsStorage
           /\ UNCHANGED <<usersStorage, booksStorage>>
           /\ RequestsWithTriple(swapRequestsStorage[call'.swapRequestId])
                = {call'.swapRequestId}
                => \A k \in DOMAIN swapRequestsStorage' :
                     Triple(swapRequestsStorage'[k])
                       # Triple(swapRequestsStorage[call'.swapRequestId])
     /\ ( /\ call'.op = "createSwapRequest"
          /\ "" \notin {call'.payload.ownerId, call'.payload.requesterId,
                        call'.payload.bookId}
          /\ Referenced(call'.payload)
          /\ RequestsWithTriple(call'.payload) = {} )
        => /\ ret'.tag = "Ok"
           /\ ret'.val.status = "Pending"
           /\ Triple(ret'.val) = Triple(call'.payload)
           /\ ret'.val.swapRequestId \notin issued
           /\ ret'.val.swapRequestId \notin DOMAIN swapRequestsStorage
           /\ ret'.val.swapRequestId \in DOMAIN swapRequestsStorage'
           /\ swapRequestsStorage'[ret'.val.swapRequestId] = ret'.val]_vars

\* createSwapRequest has stored a second request after the first, for the
\* only triple the one user and the one book allow, was deleted
C38_Witness ==
  /\ call.op = "createSwapRequest"
  /\ ret.tag = "Ok"
  /\ ret.val.swapRequestId = "s2"
  /\ "s1" \notin DOMAIN swapRequestsStorage
  /\ Cardinality(DOMAIN usersStorage) = 1
  /\ Cardinality(issued \cap BookIds) = 1

\* what createSwapRequest does to the canister when its second loop, over
\* the Completed requests, is taken out
WithoutSecondLoop(payload) ==
  IF payload.ownerId = "" \/ payload.requesterId = "" \/ payload.bookId = ""
  THEN Return(Err("InvalidPayload",
         "Ensure 'ownerId', 'requesterId', and 'bookId' are provided."))
  ELSE IF payload.ownerId \notin DOMAIN usersStorage
  THEN Return(Err("NotFound", "User not found"))
  ELSE IF payload.requesterId \notin DOMAIN usersStorage
  THEN Return(Err("NotFound", "Requester not found"))
  ELSE IF payload.bookId \notin DOMAIN booksStorage
  THEN Return(Err("NotFound", "Book not found"))
  ELSE IF tripleExists(payload)
  THEN Return(Err("InvalidPayload",
         "Swap request already exists: Ensure the swap request is unique."))
  ELSE \E swapRequestId \in uuidv4("s", limits.swaps) :
         /\ swapRequestsStorage' =
              insert(swapRequestsStorage, swapRequestId,
                     newSwapRequest(swapRequestId, payload))
         /\ issued' = issued \cup {swapRequestId}
         /\ ret' = Ok(newSwapRequest(swapRequestId, payload))
         /\ UNCHANGED <<usersStorage, booksStorage, feedbackStorage, now, limits,
                        userSwapRequests, selectedSwapRequest>>

\* C39: the second duplicate loop of createSwapRequest, over the Completed
\* requests, never produces a result: in every reachable state and for every
\* payload, when it would match, the first loop has matched already, and
\* every createSwapRequest call ends as it would without the second loop
C39_SecondLoopIdle ==
  [][/\ \A payload \in SwapRequestPayloads :
          completedTripleExists(payload) => tripleExists(payload)
     /\ call'.op = "createSwapRequest" => WithoutSecondLoop(call'.payload)]_vars

\* createSwapRequest has refused a triple that a Completed request holds
C39_Witness ==
  /\ call.op = "createSwapRequest"
  /\ ret = Err("InvalidPayload",
               "Swap request already exists: Ensure the swap request is unique.")
  /\ \E k \in RequestsWithTriple(call.payload) :
       swapRequestsStorage[k].status = "Completed"

====
